---- MODULE Spec2Model ----
(***************************************************************************)
(* CLD: hotkey-activated local speech-to-text pipeline.                    *)
(*                                                                         *)
(* The module models five components of the repository:                    *)
(*   - HotkeyListener   (src/src/cld/hotkey.py)                            *)
(*   - AudioRecorder    (src/src/cld/recorder.py)                          *)
(*   - STTDaemon        (src/src/cld/daemon_service.py)                    *)
(*   - WhisperEngine    (src/src/cld/engines/whisper.py)                   *)
(*   - Config           (src/src/cld/config.py)                            *)
(*                                                                         *)
(* Time is the wall clock in milliseconds.  The specifications share the   *)
(* variables.  The listener alone: SpecHotkey (several hotkeys and keys),  *)
(* SpecQueue (a full signal queue), SpecNormalize (modifier keys),         *)
(* SpecLifecycle and SpecConfig (its threads step by step, start(), stop() *)
(* and a configuration change).  Listener + daemon + recorder with a       *)
(* one-key hotkey: Spec, SpecWatchdog (a recording that reaches            *)
(* max_recording_seconds), SpecUnprimed (prime() failed) and SpecCallback  *)
(* (a failing audio callback).  The engine: SpecEngine (chunked,           *)
(* timeout-bounded transcription), SpecEngineLive (the same under weak     *)
(* fairness of both threads and the clock), SpecChunk and SpecJoin.  The   *)
(* configuration: SpecValidate.                                            *)
(***************************************************************************)
EXTENDS Integers, Sequences, FiniteSets, TLC

VARIABLES
    now,                  \* time.time(), in ms
    keyBudget,            \* hook events still to be explored (bound of the model)
    horizon,              \* end of the explored time (bound of the model)
    \* ---- HotkeyListener ------------------------------------------------
    hk_mode,              \* self.mode: "push-to-talk" | "toggle"
    hk_hotkey,            \* self.hotkey_str, as the sequence of its parts
    phys,                 \* raw keys physically held down (the environment)
    hk_pressed_keys,      \* self._pressed_keys
    hk_hotkey_active,     \* self._hotkey_active
    hk_is_recording,      \* self._is_recording
    hk_last_toggle_time,  \* self._last_toggle_time
    hk_event_queue,       \* self._event_queue (maxsize 8)
    hk_emit,              \* what the last hook event did: the label it handed to
                          \* _enqueue_event, "debounced" (toggle match discarded) or "none"
    hk_dispatched,        \* label of the callback the worker last invoked
    hk_listener,          \* self._listener is not None
    hk_lock,              \* owner of self._lock: "free" or "hook"
    hk_hook,              \* the hook event whose handler holds self._lock, or "none"
    hk_worker_stop,       \* self._worker_stop.is_set()
    hk_worker_thread,     \* self._worker_thread: a worker thread or "none"
    hk_workers,           \* position of each worker thread: "dead" | "loop" |
                          \* "holding" (item taken, callback not yet called) | "call"
    hk_held,              \* the label each worker took from the queue
    hk_taken,             \* workers holding an item, in the order they took them
    hk_logged,            \* "Hotkey callback failed" has been logged
    hk_caller,            \* position of the thread that calls start() / stop()
    d_reconfig,           \* the stop() in progress belongs to _on_config_change
    d_hotkey,             \* the listener self._hotkey refers to: "old" | "new"
    \* ---- STTDaemon -----------------------------------------------------
    d_max_seconds,        \* self.config.max_recording_seconds
    d_recording,          \* self._recording
    d_record_start_time,  \* self._record_start_time
    d_is_transcribing,    \* self._is_transcribing
    d_lock,               \* owner of self._lock: "free" or a thread
    pc,                   \* position of the hotkey worker and of the main loop
    audio,                \* the local `audio` of each thread in _on_recording_stop
    d_transcriptions,     \* utterances of the running _do_transcription threads
    d_status,             \* last status / feedback signal
    d_warnings,           \* max-duration warnings played for the current recording
    d_sleep,              \* ms the main loop still sleeps before its next check
    \* ---- AudioRecorder -------------------------------------------------
    rec_recording,        \* self._recording
    rec_primed,           \* self._primed
    rec_stream,           \* self._stream is open
    rec_recorded_chunks,  \* self._recorded_chunks (deque, maxlen = _max_chunks)
    rec_preroll_buffer,   \* self._preroll_buffer (deque, maxlen = preroll chunks)
    rec_dropped,          \* blocks the bounded deque evicted since start()
    rec_level,            \* _current_level, in percent
    rec_callback,         \* how the last _audio_callback ended: "ok" | "raised"
    \* ---- WhisperEngine -------------------------------------------------
    eng_pc,               \* position of the thread running transcribe()
    eng_model,            \* self._model is not None
    eng_last_error,       \* self._last_error, by category
    eng_samples,          \* len(audio) of the utterance given to the engine
    eng_chunks,           \* the local `chunks` of transcribe
    eng_i,                \* 1-based index of the chunk being transcribed
    eng_results,          \* the local `results` of transcribe
    eng_calls,            \* what the engine call of each submitted chunk does
    eng_worker,           \* the worker thread of the current executor
    eng_finish,           \* when the current engine call ends
    eng_deadline,         \* when the current future.result() times out
    eng_timed_out,        \* chunks whose future.result() timed out
    eng_return,           \* the value transcribe returned
    \* ---- Config ---------------------------------------------------------
    cfg                   \* a Config object: the values it was constructed with
                          \* (cfg.given), its fields (cfg.fields) and how the
                          \* validate() called on it ended (cfg.pc)

hkVars == <<hk_mode, hk_hotkey, phys, hk_pressed_keys, hk_hotkey_active,
            hk_is_recording, hk_last_toggle_time, hk_event_queue, hk_emit,
            hk_dispatched, hk_listener, hk_lock, hk_hook, hk_worker_stop,
            hk_worker_thread, hk_workers, hk_held, hk_taken, hk_logged,
            hk_caller, d_reconfig, d_hotkey>>

\* the listener's life cycle: threads, locks and the calls of start() / stop()
lcVars == <<hk_listener, hk_lock, hk_hook, hk_worker_stop, hk_worker_thread,
            hk_workers, hk_held, hk_taken, hk_logged, hk_caller, d_reconfig,
            d_hotkey>>

dVars == <<d_max_seconds, d_recording, d_record_start_time, d_is_transcribing,
           d_lock, pc, audio, d_transcriptions, d_status, d_warnings,
           d_sleep>>

recVars == <<rec_recording, rec_primed, rec_stream, rec_recorded_chunks,
             rec_preroll_buffer, rec_dropped, rec_level, rec_callback>>

engVars == <<eng_pc, eng_model, eng_last_error, eng_samples, eng_chunks, eng_i,
             eng_results, eng_calls, eng_worker, eng_finish, eng_deadline,
             eng_timed_out, eng_return>>

limits == <<keyBudget, horizon>>

vars == <<now, limits, hkVars, dVars, recVars, engVars, cfg>>

----------------------------------------------------------------------------
(* Bounds of the model *)

\* time.time() when the daemon starts (ms); anything far from 0
Epoch == 100000
\* number of hook (press/release) events explored by SpecHotkey, by Spec and
\* by SpecWatchdog
MaxKeyEvents == 6
MaxDaemonKeyEvents == 5
MaxWatchdogKeyEvents == 2
\* clock ticks explored by SpecHotkey, and the length of one tick in ms
MaxHotkeyTicks == 5
HotkeyTickMs == 100
\* audio blocks (of BlockMs each) explored by Spec and by SpecWatchdog
MaxBlocks == 9
MaxWatchdogBlocks == 18
\* hook events and audio blocks explored with an unprimed recorder
\* (SpecUnprimed)
MaxUnprimedKeyEvents == 4
MaxUnprimedBlocks == 6
\* clock steps of an explored transcription (SpecEngine)
\* SpecLifecycle: hook events and expired joins
MaxLifecycleKeyEvents == 4
MaxLifecycleJoins == 1

\* SpecNormalize: hook events
MaxNormalizeKeyEvents == 3

\* SpecQueue: hook events
MaxQueueKeyEvents == 10

\* SpecCallback: hook events and audio blocks
MaxCallbackKeyEvents == 3
MaxCallbackBlocks == 4

MaxEngineTicks == 16
\* longest utterances given to _chunk_audio (SpecChunk): whole seconds, and
\* whole audio blocks as the recorder delivers them
MaxUtteranceSeconds == 200
MaxUtteranceBlocks == 3200
\* chunk texts given to _join_chunks (SpecJoin): at most this many texts,
\* holding at most this many words together
MaxJoinTexts == 3
MaxJoinWords == 7

(* Program constants *)

\* self._worker_thread.join(timeout=1.0), in ms
JoinTimeoutMs == 1000

\* TOGGLE_DEBOUNCE_SECONDS = 0.3, in ms
DebounceMs == 300
\* queue.Queue(maxsize=8)
QueueMaxSize == 8
\* RecorderConfig.sample_rate
SampleRate == 16000
\* RecorderConfig.blocksize
BlockSize == 1024
\* RecorderConfig.preroll_ms
PrerollMs == 300
\* the main loop's time.sleep(0.1) between two watchdog checks, in ms
SleepMs == 100
\* the warning is due 30 s before max_recording_seconds
WarnBeforeS == 30
\* ... and the test for it is open for one second (max_seconds - 29)
WarnUntilS == 29
\* whisper.py: CHUNK_DURATION_SECONDS, CHUNK_OVERLAP_SECONDS
ChunkDurationSeconds == 60
ChunkOverlapSeconds == 5
\* whisper.py: transcription_timeout (seconds)
TranscriptionTimeoutS == 120
\* whisper.py _join_chunks: range(5, 0, -1) and the `>= 3` words test
MaxOverlapWords == 5
MinDedupWords == 3

----------------------------------------------------------------------------
(* HotkeyListener *)

\* raw key events the hook can deliver
RawKeys == {"ctrl_l", "ctrl_r", "space", "x"}

\* configured hotkey strings, split at "+"
Hotkeys == { <<"ctrl", "space">>, <<"ctrl_r", "space">>, <<"space">> }

Modes == {"push-to-talk", "toggle"}

\* self._use_specific_ctrl
UseSpecificCtrl(hotkey) ==
    \E i \in 1..Len(hotkey) : hotkey[i] \in {"ctrl_r", "ctrl_l"}

\* self._use_specific_shift, self._use_specific_alt
UseSpecificShift(hotkey) ==
    \E i \in 1..Len(hotkey) : hotkey[i] \in {"shift_r", "shift_l"}

UseSpecificAlt(hotkey) ==
    \E i \in 1..Len(hotkey) : hotkey[i] \in {"alt_gr", "alt_r", "alt_l"}

\* NormalizeKey in which a virtual-key code always keeps its side
NormalizeKey_VkKeepsSide(key, hotkey) ==
    CASE key = "vk164" -> "alt_l"
      [] key = "vk165" -> "alt_gr"
      [] key = "vk162" -> "ctrl_l"
      [] key = "vk163" -> "ctrl_r"
      [] key = "vk160" -> "shift_l"
      [] key = "vk161" -> "shift_r"
      [] key = "vk32" -> "space"
      [] key = "vk88" -> "x"
      [] key \in {"ctrl_l", "ctrl_r"} ->
            IF ~UseSpecificCtrl(hotkey) THEN "ctrl" ELSE key
      [] key \in {"shift_l", "shift_r"} ->
            IF ~UseSpecificShift(hotkey) THEN "shift" ELSE key
      [] key \in {"alt_l", "alt_r", "alt_gr"} ->
            IF ~UseSpecificAlt(hotkey) THEN "alt" ELSE key
      [] OTHER -> key

\* _normalize_key(key, for_matching=True).  A key is a member of keyboard.Key
\* or a character, named by its name, or a KeyCode that carries a Windows
\* virtual-key code n, named "vk<n>".
NormalizeKey(key, hotkey) ==
    CASE key = "vk164" -> IF UseSpecificAlt(hotkey) THEN "alt_l" ELSE "alt"
      [] key = "vk165" -> IF UseSpecificAlt(hotkey) THEN "alt_gr" ELSE "alt"
      [] key = "vk162" -> IF UseSpecificCtrl(hotkey) THEN "ctrl_l" ELSE "ctrl"
      [] key = "vk163" -> IF UseSpecificCtrl(hotkey) THEN "ctrl_r" ELSE "ctrl"
      [] key = "vk160" -> IF UseSpecificShift(hotkey) THEN "shift_l" ELSE "shift"
      [] key = "vk161" -> IF UseSpecificShift(hotkey) THEN "shift_r" ELSE "shift"
      [] key = "vk32" -> "space"
      [] key = "vk88" -> "x"
      [] key \in {"ctrl_l", "ctrl_r"} ->
            IF ~UseSpecificCtrl(hotkey) THEN "ctrl" ELSE key
      [] key \in {"shift_l", "shift_r"} ->
            IF ~UseSpecificShift(hotkey) THEN "shift" ELSE key
      [] key \in {"alt_l", "alt_r", "alt_gr"} ->
            IF ~UseSpecificAlt(hotkey) THEN "alt" ELSE key
      [] OTHER -> key

\* _parse_hotkey: self._hotkey_keys
ParseHotkey(hotkey) ==
    { NormalizeKey(hotkey[i], hotkey) : i \in 1..Len(hotkey) }

hk_hotkey_keys == ParseHotkey(hk_hotkey)

\* the labels _on_press and _on_release hand to _enqueue_event
Signals == {"start", "stop"}

\* EnqueueEvent on a queue without capacity
EnqueueEvent_Unbounded(queue, label) == Append(queue, label)

\* _enqueue_event: put_nowait, dropped when the queue is full
EnqueueEvent(queue, label) ==
    IF Len(queue) < QueueMaxSize THEN Append(queue, label) ELSE queue


\* PressOutcome without the `not self._hotkey_active` test: every press with
\* the hotkey held is a match
PressOutcome_Repeat(pressed) ==
    LET same == [active |-> hk_hotkey_active, rec |-> hk_is_recording,
                 last |-> hk_last_toggle_time, emit |-> "none"]
    IN IF ~(hk_hotkey_keys \subseteq pressed) THEN same
       ELSE IF hk_mode = "toggle"
            THEN IF now - hk_last_toggle_time < DebounceMs
                 THEN [same EXCEPT !.active = TRUE, !.emit = "debounced"]
                 ELSE IF ~hk_is_recording
                      THEN [active |-> TRUE, rec |-> TRUE, last |-> now, emit |-> "start"]
                      ELSE [active |-> TRUE, rec |-> FALSE, last |-> now, emit |-> "stop"]
            ELSE IF ~hk_is_recording
                 THEN [same EXCEPT !.active = TRUE, !.rec = TRUE, !.emit = "start"]
                 ELSE [same EXCEPT !.active = TRUE]

\* PressOutcome without the debounce test of toggle mode
PressOutcome_NoDebounce(pressed) ==
    LET same == [active |-> hk_hotkey_active, rec |-> hk_is_recording,
                 last |-> hk_last_toggle_time, emit |-> "none"]
    IN IF ~(hk_hotkey_keys \subseteq pressed) THEN same
       ELSE IF hk_hotkey_active THEN same
       ELSE IF hk_mode = "toggle"
            THEN IF ~hk_is_recording
                 THEN [active |-> TRUE, rec |-> TRUE, last |-> now, emit |-> "start"]
                 ELSE [active |-> TRUE, rec |-> FALSE, last |-> now, emit |-> "stop"]
            ELSE IF ~hk_is_recording
                 THEN [same EXCEPT !.active = TRUE, !.rec = TRUE, !.emit = "start"]
                 ELSE [same EXCEPT !.active = TRUE]

\* _on_press, the matching part: the values of (_hotkey_active, _is_recording,
\* _last_toggle_time, label enqueued) after a press that leaves `pressed` held
PressOutcome(pressed) ==
    LET same == [active |-> hk_hotkey_active, rec |-> hk_is_recording,
                 last |-> hk_last_toggle_time, emit |-> "none"]
    IN IF ~(hk_hotkey_keys \subseteq pressed) THEN same
       ELSE IF hk_hotkey_active THEN same
       ELSE IF hk_mode = "toggle"
            THEN IF now - hk_last_toggle_time < DebounceMs
                 THEN [same EXCEPT !.active = TRUE, !.emit = "debounced"]
                 ELSE IF ~hk_is_recording
                      THEN [active |-> TRUE, rec |-> TRUE, last |-> now, emit |-> "start"]
                      ELSE [active |-> TRUE, rec |-> FALSE, last |-> now, emit |-> "stop"]
            ELSE IF ~hk_is_recording
                 THEN [same EXCEPT !.active = TRUE, !.rec = TRUE, !.emit = "start"]
                 ELSE [same EXCEPT !.active = TRUE]

\* _on_press(key)
OnPress(key) ==
    /\ keyBudget > 0
    /\ keyBudget' = keyBudget - 1
    /\ phys' = phys \cup {key}
    /\ LET pressed == hk_pressed_keys \cup {NormalizeKey(key, hk_hotkey)}
           out == PressOutcome(pressed)
       IN /\ hk_pressed_keys' = pressed
          /\ hk_hotkey_active' = out.active
          /\ hk_is_recording' = out.rec
          /\ hk_last_toggle_time' = out.last
          /\ hk_emit' = out.emit
          /\ hk_event_queue' = IF out.emit \in Signals
                               THEN EnqueueEvent(hk_event_queue, out.emit)
                               ELSE hk_event_queue
    /\ UNCHANGED <<cfg, engVars, now, horizon, hk_mode, hk_hotkey, hk_dispatched,
                   lcVars, dVars, recVars>>

\* ReleaseOutcome that stops only once no key of the hotkey remains held
ReleaseOutcome_AllReleased(normalized) ==
    LET is_hotkey_key == normalized \in hk_hotkey_keys
        active == IF is_hotkey_key THEN FALSE ELSE hk_hotkey_active
        none_held == (hk_pressed_keys \ {normalized}) \cap hk_hotkey_keys = {}
    IN IF hk_mode = "push-to-talk" /\ hk_is_recording /\ is_hotkey_key /\ none_held
       THEN [active |-> active, rec |-> FALSE, emit |-> "stop"]
       ELSE [active |-> active, rec |-> hk_is_recording, emit |-> "none"]

\* ReleaseOutcome without `self._is_recording = False`
ReleaseOutcome_KeepsRecording(normalized) ==
    LET is_hotkey_key == normalized \in hk_hotkey_keys
        active == IF is_hotkey_key THEN FALSE ELSE hk_hotkey_active
    IN IF hk_mode = "push-to-talk" /\ hk_is_recording /\ is_hotkey_key
       THEN [active |-> active, rec |-> hk_is_recording, emit |-> "stop"]
       ELSE [active |-> active, rec |-> hk_is_recording, emit |-> "none"]

\* _on_release, the matching part
ReleaseOutcome(normalized) ==
    LET is_hotkey_key == normalized \in hk_hotkey_keys
        active == IF is_hotkey_key THEN FALSE ELSE hk_hotkey_active
    IN IF hk_mode = "push-to-talk" /\ hk_is_recording /\ is_hotkey_key
       THEN [active |-> active, rec |-> FALSE, emit |-> "stop"]
       ELSE [active |-> active, rec |-> hk_is_recording, emit |-> "none"]

\* _on_release(key): the hook reports the release of a key that is down
OnRelease(key) ==
    /\ keyBudget > 0
    /\ key \in phys
    /\ keyBudget' = keyBudget - 1
    /\ phys' = phys \ {key}
    /\ LET normalized == NormalizeKey(key, hk_hotkey)
           out == ReleaseOutcome(normalized)
       IN /\ hk_pressed_keys' = hk_pressed_keys \ {normalized}
          /\ hk_hotkey_active' = out.active
          /\ hk_is_recording' = out.rec
          /\ hk_emit' = out.emit
          /\ hk_event_queue' = IF out.emit \in Signals
                               THEN EnqueueEvent(hk_event_queue, out.emit)
                               ELSE hk_event_queue
    /\ UNCHANGED <<cfg, engVars, now, horizon, hk_mode, hk_hotkey, hk_last_toggle_time,
                   hk_dispatched, lcVars, dVars, recVars>>

\* _event_worker with the callbacks left abstract: take the head of the queue
\* and invoke its callback
WorkerDispatch ==
    /\ hk_event_queue # <<>>
    /\ hk_dispatched' = Head(hk_event_queue)
    /\ hk_event_queue' = Tail(hk_event_queue)
    /\ UNCHANGED <<cfg, engVars, now, limits, hk_mode, hk_hotkey, phys, hk_pressed_keys,
                   hk_hotkey_active, hk_is_recording, hk_last_toggle_time,
                   hk_emit, lcVars, dVars, recVars>>

\* ---- the listener's threads one step at a time ---------------------------

\* the dispatch-worker threads a listener can have had
WorkerIds == {"w1", "w2"}

\* the entry stop() puts into the queue (None)
Sentinel == "sentinel"

\* _ensure_worker: the worker thread, the positions and the stop event after
\* the call; a new thread takes the place of one that has ended
WorkerAlive == hk_worker_thread # "none" /\ hk_workers[hk_worker_thread] # "dead"

CanEnsureWorker == WorkerAlive \/ \E w \in WorkerIds : hk_workers[w] = "dead"

EnsureWorker ==
    IF WorkerAlive
    THEN [thread |-> hk_worker_thread, workers |-> hk_workers, stop |-> hk_worker_stop]
    ELSE LET w == CHOOSE v \in WorkerIds : hk_workers[v] = "dead"
         IN [thread |-> w, workers |-> [hk_workers EXCEPT ![w] = "loop"],
             stop |-> FALSE]

\* _on_press / _on_release up to the first statement under self._lock: the
\* key is normalized, the lock taken and _pressed_keys updated
HookEnter(kind, key) ==
    /\ hk_listener
    /\ hk_hook = "none"
    /\ hk_lock = "free"
    /\ keyBudget > 0
    /\ kind = "release" => key \in phys
    /\ keyBudget' = keyBudget - 1
    /\ phys' = IF kind = "press" THEN phys \cup {key} ELSE phys \ {key}
    /\ hk_pressed_keys' = IF kind = "press"
                          THEN hk_pressed_keys \cup {NormalizeKey(key, hk_hotkey)}
                          ELSE hk_pressed_keys \ {NormalizeKey(key, hk_hotkey)}
    /\ hk_lock' = "hook"
    /\ hk_hook' = <<kind, key, "entered">>
    /\ UNCHANGED <<cfg, engVars, now, horizon, dVars, recVars, hk_mode, hk_hotkey,
                   hk_hotkey_active, hk_is_recording, hk_last_toggle_time,
                   hk_event_queue, hk_emit, hk_dispatched, hk_listener,
                   hk_worker_stop, hk_worker_thread, hk_workers, hk_held,
                   hk_taken, hk_logged, hk_caller, d_reconfig, d_hotkey>>

\* _on_press / _on_release, the statements under self._lock up to the call of
\* _enqueue_event: the matching test and the updates of PressState; a handler
\* that emits nothing returns here
HookMatch ==
    /\ hk_hook # "none"
    /\ hk_hook[3] = "entered"
    /\ LET out == IF hk_hook[1] = "press"
                  THEN PressOutcome(hk_pressed_keys)
                  ELSE LET r == ReleaseOutcome(NormalizeKey(hk_hook[2], hk_hotkey))
                       IN [active |-> r.active, rec |-> r.rec,
                           last |-> hk_last_toggle_time, emit |-> r.emit]
       IN /\ hk_hotkey_active' = out.active
          /\ hk_is_recording' = out.rec
          /\ hk_last_toggle_time' = out.last
          /\ hk_emit' = out.emit
          /\ IF out.emit \in Signals
             THEN /\ hk_hook' = <<hk_hook[1], hk_hook[2], out.emit>>
                  /\ UNCHANGED hk_lock
             ELSE /\ hk_hook' = "none"
                  /\ hk_lock' = "free"
    /\ UNCHANGED <<cfg, engVars, now, limits, dVars, recVars, hk_mode, hk_hotkey, phys,
                   hk_pressed_keys, hk_event_queue, hk_dispatched, hk_listener,
                   hk_worker_stop, hk_worker_thread, hk_workers, hk_held,
                   hk_taken, hk_logged, hk_caller, d_reconfig, d_hotkey>>

\* _on_press / _on_release, the call of _enqueue_event (_ensure_worker and
\* put_nowait) and the release of the lock
HookEnqueue ==
    /\ hk_hook # "none"
    /\ hk_hook[3] \in Signals
    /\ CanEnsureWorker
    /\ LET ens == EnsureWorker
       IN /\ hk_event_queue' = EnqueueEvent(hk_event_queue, hk_hook[3])
          /\ hk_worker_thread' = ens.thread
          /\ hk_workers' = ens.workers
          /\ hk_worker_stop' = ens.stop
    /\ hk_lock' = "free"
    /\ hk_hook' = "none"
    /\ UNCHANGED <<cfg, engVars, now, limits, dVars, recVars, hk_mode, hk_hotkey, phys,
                   hk_pressed_keys, hk_hotkey_active, hk_is_recording,
                   hk_last_toggle_time, hk_emit, hk_dispatched, hk_listener,
                   hk_held, hk_taken, hk_logged, hk_caller, d_reconfig,
                   d_hotkey>>

\* start(): the keyboard listener is created and started (or its creation
\* raises) and _ensure_worker is called
ListenerStart(ok) ==
    /\ hk_caller = "idle"
    /\ d_hotkey = "old"
    /\ CanEnsureWorker
    /\ IF hk_listener \/ ~ok
       THEN UNCHANGED <<hk_listener, hk_worker_thread, hk_workers, hk_worker_stop>>
       ELSE LET ens == EnsureWorker
            IN /\ hk_listener' = TRUE
               /\ hk_worker_thread' = ens.thread
               /\ hk_workers' = ens.workers
               /\ hk_worker_stop' = ens.stop
    /\ UNCHANGED <<cfg, engVars, now, limits, dVars, recVars, hk_mode, hk_hotkey, phys,
                   hk_pressed_keys, hk_hotkey_active, hk_is_recording,
                   hk_last_toggle_time, hk_event_queue, hk_emit, hk_dispatched,
                   hk_lock, hk_hook, hk_held, hk_taken, hk_logged, hk_caller,
                   d_reconfig, d_hotkey>>

\* stop(), lines 448-452, called directly or by _on_config_change: the
\* keyboard listener is stopped (a handler in progress is not waited for) and
\* PressState is reset
ListenerStopClear(reconfig) ==
    /\ hk_caller = "idle"
    /\ d_hotkey = "old"
    /\ d_reconfig' = reconfig
    /\ IF hk_listener
       THEN /\ hk_listener' = FALSE
            /\ hk_pressed_keys' = {}
            /\ hk_is_recording' = FALSE
       ELSE UNCHANGED <<hk_listener, hk_pressed_keys, hk_is_recording>>
    /\ hk_caller' = "stop_worker"
    /\ UNCHANGED <<cfg, engVars, now, limits, dVars, recVars, hk_mode, hk_hotkey, phys,
                   hk_hotkey_active, hk_last_toggle_time, hk_event_queue,
                   hk_emit, hk_dispatched, hk_lock, hk_hook, hk_worker_stop,
                   hk_worker_thread, hk_workers, hk_held, hk_taken, hk_logged,
                   d_hotkey>>

\* stop(), lines 455-459: self._worker_stop.set() and put_nowait(None)
ListenerStopWorker ==
    /\ hk_caller = "stop_worker"
    /\ hk_worker_stop' = TRUE
    /\ hk_event_queue' = EnqueueEvent(hk_event_queue, Sentinel)
    /\ hk_caller' = "join"
    /\ UNCHANGED <<cfg, engVars, now, limits, dVars, recVars, hk_mode, hk_hotkey, phys,
                   hk_pressed_keys, hk_hotkey_active, hk_is_recording,
                   hk_last_toggle_time, hk_emit, hk_dispatched, hk_listener,
                   hk_lock, hk_hook, hk_worker_thread, hk_workers, hk_held,
                   hk_taken, hk_logged, d_reconfig, d_hotkey>>

\* stop(), lines 460-462: join(timeout=1.0) returns because the worker thread
\* has ended (or there is none), or because the worker is still inside a
\* callback when the timeout expires; self._worker_thread = None either way
ListenerJoin(timed_out) ==
    /\ hk_caller = "join"
    /\ IF timed_out
       THEN /\ WorkerAlive
            /\ hk_workers[hk_worker_thread] = "call"
            /\ now + JoinTimeoutMs <= horizon
            /\ now' = now + JoinTimeoutMs
       ELSE /\ ~WorkerAlive
            /\ UNCHANGED now
    /\ hk_worker_thread' = "none"
    /\ hk_caller' = IF d_reconfig THEN "replace" ELSE "idle"
    /\ UNCHANGED <<cfg, engVars, limits, dVars, recVars, hk_mode, hk_hotkey, phys,
                   hk_pressed_keys, hk_hotkey_active, hk_is_recording,
                   hk_last_toggle_time, hk_event_queue, hk_emit, hk_dispatched,
                   hk_listener, hk_lock, hk_hook, hk_worker_stop, hk_workers,
                   hk_held, hk_taken, hk_logged, d_reconfig, d_hotkey>>

\* _on_config_change, lines 409-416: the new HotkeyListener is constructed
\* (HotkeyError if the hotkey does not parse) and started
ConfigReplace(ok) ==
    /\ hk_caller = "replace"
    /\ d_hotkey' = IF ok THEN "new" ELSE d_hotkey
    /\ d_reconfig' = FALSE
    /\ hk_caller' = "idle"
    /\ UNCHANGED <<cfg, engVars, now, limits, dVars, recVars, hk_mode, hk_hotkey, phys,
                   hk_pressed_keys, hk_hotkey_active, hk_is_recording,
                   hk_last_toggle_time, hk_event_queue, hk_emit, hk_dispatched,
                   hk_listener, hk_lock, hk_hook, hk_worker_stop,
                   hk_worker_thread, hk_workers, hk_held, hk_taken, hk_logged>>

\* _event_worker, lines 202-209: the loop test and the get; the thread ends
\* when the stop event is set or the item is None
WorkerTake(w) ==
    /\ hk_workers[w] = "loop"
    /\ IF hk_worker_stop
       THEN /\ hk_workers' = [hk_workers EXCEPT ![w] = "dead"]
            /\ UNCHANGED <<hk_event_queue, hk_held, hk_taken>>
       ELSE /\ hk_event_queue # <<>>
            /\ hk_event_queue' = Tail(hk_event_queue)
            /\ IF Head(hk_event_queue) = Sentinel
               THEN /\ hk_workers' = [hk_workers EXCEPT ![w] = "dead"]
                    /\ UNCHANGED <<hk_held, hk_taken>>
               ELSE /\ hk_workers' = [hk_workers EXCEPT ![w] = "holding"]
                    /\ hk_held' = [hk_held EXCEPT ![w] = Head(hk_event_queue)]
                    /\ hk_taken' = Append(hk_taken, w)
    /\ UNCHANGED <<cfg, engVars, now, limits, dVars, recVars, hk_mode, hk_hotkey, phys,
                   hk_pressed_keys, hk_hotkey_active, hk_is_recording,
                   hk_last_toggle_time, hk_emit, hk_dispatched, hk_listener,
                   hk_lock, hk_hook, hk_worker_stop, hk_worker_thread,
                   hk_logged, hk_caller, d_reconfig, d_hotkey>>

\* _event_worker, line 213: callback() is called
WorkerInvoke(w) ==
    /\ hk_workers[w] = "holding"
    /\ hk_workers' = [hk_workers EXCEPT ![w] = "call"]
    /\ hk_dispatched' = hk_held[w]
    /\ hk_taken' = SelectSeq(hk_taken, LAMBDA v : v # w)
    /\ UNCHANGED <<cfg, engVars, now, limits, dVars, recVars, hk_mode, hk_hotkey, phys,
                   hk_pressed_keys, hk_hotkey_active, hk_is_recording,
                   hk_last_toggle_time, hk_event_queue, hk_emit, hk_listener,
                   hk_lock, hk_hook, hk_worker_stop, hk_worker_thread, hk_held,
                   hk_logged, hk_caller, d_reconfig, d_hotkey>>

\* WorkerReturn in which an exception of the callback ends the worker thread
WorkerReturn_Dies(w, raises) ==
    /\ hk_workers[w] = "call"
    /\ hk_workers' = [hk_workers EXCEPT ![w] = IF raises THEN "dead" ELSE "loop"]
    /\ hk_held' = [hk_held EXCEPT ![w] = "none"]
    /\ hk_logged' = hk_logged
    /\ UNCHANGED <<cfg, engVars, now, limits, dVars, recVars, hk_mode, hk_hotkey, phys,
                   hk_pressed_keys, hk_hotkey_active, hk_is_recording,
                   hk_last_toggle_time, hk_event_queue, hk_emit, hk_dispatched,
                   hk_listener, hk_lock, hk_hook, hk_worker_stop,
                   hk_worker_thread, hk_taken, hk_caller, d_reconfig, d_hotkey>>

\* _event_worker, lines 212-215: the callback returns or raises; an exception
\* is logged and the loop goes on
WorkerReturn(w, raises) ==
    /\ hk_workers[w] = "call"
    /\ hk_workers' = [hk_workers EXCEPT ![w] = "loop"]
    /\ hk_held' = [hk_held EXCEPT ![w] = "none"]
    /\ hk_logged' = (hk_logged \/ raises)
    /\ UNCHANGED <<cfg, engVars, now, limits, dVars, recVars, hk_mode, hk_hotkey, phys,
                   hk_pressed_keys, hk_hotkey_active, hk_is_recording,
                   hk_last_toggle_time, hk_event_queue, hk_emit, hk_dispatched,
                   hk_listener, hk_lock, hk_hook, hk_worker_stop,
                   hk_worker_thread, hk_taken, hk_caller, d_reconfig, d_hotkey>>

\* the clock advances (SpecHotkey)
HotkeyTick ==
    /\ now + HotkeyTickMs <= horizon
    /\ now' = now + HotkeyTickMs
    /\ UNCHANGED <<cfg, engVars, limits, hkVars, dVars, recVars>>

----------------------------------------------------------------------------
(* AudioRecorder *)

Max(a, b) == IF a >= b THEN a ELSE b

\* math.ceil(a / b) for naturals a, b > 0
CeilDiv(a, b) == (a + b - 1) \div b

\* duration of one audio block in ms (blocksize / sample_rate)
BlockMs == (BlockSize * 1000) \div SampleRate

\* __init__: maxlen of the pre-roll ring
PrerollChunks ==
    LET preroll_samples == (PrerollMs * SampleRate) \div 1000
    IN Max(1, CeilDiv(preroll_samples, BlockSize))

\* _compute_max_chunks
ComputeMaxChunks(max_recording_seconds) ==
    LET max_seconds == Max(1, max_recording_seconds)
    IN Max(1, CeilDiv(max_seconds * SampleRate, BlockSize))

\* an append that never evicts
DequeAppend_Unbounded(q, x, maxlen) == Append(q, x)

\* deque(maxlen=n).append(x): the oldest element is evicted when full
DequeAppend(q, x, maxlen) ==
    IF Len(q) >= maxlen THEN Append(Tail(q), x) ELSE Append(q, x)

\* number of elements DequeAppend evicts
DequeEvicts(q, maxlen) == IF Len(q) >= maxlen THEN 1 ELSE 0

\* a copy of the ring that takes its blocks newest first
RECURSIVE SeedFromPreroll_NewestFirst(_, _, _)
SeedFromPreroll_NewestFirst(q, ring, maxlen) ==
    IF ring = <<>> THEN q
    ELSE SeedFromPreroll_NewestFirst(DequeAppend(q, ring[Len(ring)], maxlen),
                                     SubSeq(ring, 1, Len(ring) - 1), maxlen)

\* for chunk in self._preroll_buffer: self._recorded_chunks.append(chunk)
RECURSIVE SeedFromPreroll(_, _, _)
SeedFromPreroll(q, ring, maxlen) ==
    IF ring = <<>> THEN q
    ELSE SeedFromPreroll(DequeAppend(q, Head(ring), maxlen), Tail(ring), maxlen)

\* start(): the recorder after the call and the value returned; stream_ok is
\* whether sd.InputStream(...).start() succeeds when the recorder is not primed
RecorderStart(stream_ok) ==
    LET cur == [recording |-> rec_recording, stream |-> rec_stream,
                chunks |-> rec_recorded_chunks, preroll |-> rec_preroll_buffer,
                dropped |-> rec_dropped]
        maxlen == ComputeMaxChunks(d_max_seconds)
        seeded == SeedFromPreroll(<<>>, rec_preroll_buffer, maxlen)
        began == [cur EXCEPT !.recording = TRUE, !.chunks = seeded,
                             !.preroll = <<>>,
                             !.dropped = Len(rec_preroll_buffer) - Len(seeded)]
    IN IF rec_recording THEN [rec |-> cur, ok |-> TRUE]
       ELSE IF rec_primed THEN [rec |-> began, ok |-> TRUE]
       ELSE IF stream_ok THEN [rec |-> [began EXCEPT !.stream = TRUE], ok |-> TRUE]
       ELSE [rec |-> began, ok |-> FALSE]

\* stop(): the recorder after the call and the array returned (<<>> is None)
RecorderStop ==
    LET cur == [recording |-> rec_recording, stream |-> rec_stream,
                chunks |-> rec_recorded_chunks]
    IN IF ~rec_recording THEN [rec |-> cur, audio |-> <<>>]
       ELSE IF rec_recorded_chunks = <<>>
            THEN [rec |-> [cur EXCEPT !.recording = FALSE], audio |-> <<>>]
            ELSE [rec |-> [recording |-> FALSE,
                           stream |-> IF ~rec_primed THEN FALSE ELSE rec_stream,
                           chunks |-> <<>>],
                  audio |-> rec_recorded_chunks]

\* shutdown(): the recorder after the call
RecorderShutdown ==
    [recording |-> FALSE, primed |-> FALSE, stream |-> FALSE,
     chunks |-> rec_recorded_chunks]

\* the level min(1.0, rms * 80) of an input block, in percent: the input is a
\* signal that is never silent and alternates between two loudnesses
BlockLevel(block) == IF (block \div BlockMs) % 2 = 0 THEN 40 ELSE 100

\* one block period passes (the main loop's sleep runs down); if the stream is
\* open, _audio_callback stores the block (identified by its capture time)
AudioTick ==
    /\ now + BlockMs <= horizon
    /\ now' = now + BlockMs
    /\ IF ~rec_stream
       THEN UNCHANGED <<rec_recorded_chunks, rec_preroll_buffer, rec_dropped,
                        rec_level, rec_callback>>
       ELSE /\ rec_level' = BlockLevel(now')
            /\ rec_callback' = "ok"
            /\ IF rec_recording
               THEN LET maxlen == ComputeMaxChunks(d_max_seconds)
                    IN /\ rec_recorded_chunks' =
                             DequeAppend(rec_recorded_chunks, now', maxlen)
                       /\ rec_dropped' =
                             rec_dropped + DequeEvicts(rec_recorded_chunks, maxlen)
                       /\ UNCHANGED rec_preroll_buffer
               ELSE /\ rec_preroll_buffer' =
                          DequeAppend(rec_preroll_buffer, now', PrerollChunks)
                    /\ UNCHANGED <<rec_recorded_chunks, rec_dropped>>
    /\ d_sleep' = Max(0, d_sleep - BlockMs)
    /\ UNCHANGED <<cfg, engVars, limits, hkVars, d_max_seconds, d_recording, d_record_start_time,
                   d_is_transcribing, d_lock, pc, audio, d_transcriptions,
                   d_status, d_warnings, rec_recording, rec_primed, rec_stream>>

\* the statements of _audio_callback at which an exception can leave it: the
\* level computation (lines 119-123), the spectrum (128-157), the store (160-169)
CallbackFaults == {"level", "spectrum", "store"}

\* one block period passes and _audio_callback raises at `fault`.  The
\* callback has no handler, so the exception leaves it: the statements before
\* `fault` have run, the block is not stored, and the audio library either
\* aborts the stream or keeps calling the callback.
AudioCallbackRaises(fault, aborted) ==
    /\ rec_stream
    /\ now + BlockMs <= horizon
    /\ now' = now + BlockMs
    /\ rec_level' = IF fault = "level" THEN rec_level ELSE BlockLevel(now')
    /\ rec_callback' = "raised"
    /\ rec_stream' = ~aborted
    /\ d_sleep' = Max(0, d_sleep - BlockMs)
    /\ UNCHANGED <<cfg, engVars, limits, hkVars, d_max_seconds, d_recording,
                   d_record_start_time, d_is_transcribing, d_lock, pc, audio,
                   d_transcriptions, d_status, d_warnings, rec_recording,
                   rec_primed, rec_recorded_chunks, rec_preroll_buffer,
                   rec_dropped>>

----------------------------------------------------------------------------
(* STTDaemon *)

\* the threads that run the Start/Stop handlers: the hotkey-dispatch worker
\* and the main loop (watchdog)
Threads == {"worker", "main"}

\* min_samples = int(0.2 * sample_rate)
MinSamples == (2 * SampleRate) \div 10

\* len(audio) of the array stop() returned, in samples
AudioLen(a) == Len(a) * BlockSize

\* _event_worker: take the head of the queue and call its callback
WorkerGet ==
    /\ pc["worker"] = "idle"
    /\ hk_event_queue # <<>>
    /\ hk_dispatched' = Head(hk_event_queue)
    /\ hk_event_queue' = Tail(hk_event_queue)
    /\ pc' = [pc EXCEPT !["worker"] =
                 IF Head(hk_event_queue) = "start" THEN "start_check" ELSE "stop_lock"]
    /\ UNCHANGED <<cfg, engVars, now, limits, hk_mode, hk_hotkey, phys, hk_pressed_keys,
                   hk_hotkey_active, hk_is_recording, hk_last_toggle_time, hk_emit,
                   lcVars,
                   d_max_seconds, d_recording, d_record_start_time,
                   d_is_transcribing, d_lock, audio, d_transcriptions, d_status,
                   d_warnings, d_sleep, recVars>>

\* _on_recording_start, line 198: if self._is_transcribing: return
StartCheck ==
    /\ pc["worker"] = "start_check"
    /\ IF d_is_transcribing
       THEN /\ pc' = [pc EXCEPT !["worker"] = "idle"]
            /\ d_status' = "busy"
       ELSE /\ pc' = [pc EXCEPT !["worker"] = "start_lock"]
            /\ UNCHANGED d_status
    /\ UNCHANGED <<cfg, engVars, now, limits, hkVars, d_max_seconds, d_recording,
                   d_record_start_time, d_is_transcribing, d_lock, audio,
                   d_transcriptions, d_warnings, d_sleep, recVars>>

\* _on_recording_start, lines 203-207: with self._lock: if self._recording:
\* return; self._recording = True
StartLock ==
    /\ pc["worker"] = "start_lock"
    /\ d_lock = "free"
    /\ IF d_recording
       THEN /\ pc' = [pc EXCEPT !["worker"] = "idle"]
            /\ UNCHANGED <<d_recording, d_lock>>
       ELSE /\ d_recording' = TRUE
            /\ d_lock' = "worker"
            /\ pc' = [pc EXCEPT !["worker"] = "start_record"]
    /\ UNCHANGED <<cfg, engVars, now, limits, hkVars, d_max_seconds, d_record_start_time,
                   d_is_transcribing, audio, d_transcriptions, d_status,
                   d_warnings, d_sleep, recVars>>

\* _on_recording_start, lines 208-222: the start time, recorder.start() and
\* the release of the lock
StartRecord(stream_ok) ==
    /\ pc["worker"] = "start_record"
    /\ d_record_start_time' = now
    /\ d_warnings' = 0
    /\ LET r == RecorderStart(stream_ok)
       IN /\ rec_recording' = r.rec.recording
          /\ rec_stream' = r.rec.stream
          /\ rec_recorded_chunks' = r.rec.chunks
          /\ rec_preroll_buffer' = r.rec.preroll
          /\ rec_dropped' = r.rec.dropped
          /\ IF r.ok
             THEN d_status' = "recording" /\ UNCHANGED d_recording
             ELSE d_status' = "start_failed" /\ d_recording' = FALSE
    /\ d_lock' = "free"
    /\ pc' = [pc EXCEPT !["worker"] = "idle"]
    /\ UNCHANGED <<cfg, engVars, now, limits, hkVars, d_max_seconds, d_is_transcribing,
                   audio, d_transcriptions, d_sleep, rec_primed, rec_level,
                   rec_callback>>

\* _on_recording_stop, lines 228-240: the section under self._lock
StopLock(t) ==
    /\ pc[t] = "stop_lock"
    /\ d_lock = "free"
    /\ IF ~d_recording
       THEN /\ pc' = [pc EXCEPT ![t] = "idle"]
            /\ UNCHANGED <<d_recording, audio, d_status, rec_recording,
                           rec_stream, rec_recorded_chunks>>
       ELSE LET r == RecorderStop
            IN /\ d_recording' = FALSE
               /\ audio' = [audio EXCEPT ![t] = r.audio]
               /\ rec_recording' = r.rec.recording
               /\ rec_stream' = r.rec.stream
               /\ rec_recorded_chunks' = r.rec.chunks
               /\ d_status' = "stopped"
               /\ pc' = [pc EXCEPT ![t] = "stop_filter"]
    /\ UNCHANGED <<cfg, engVars, now, limits, hkVars, d_max_seconds, d_record_start_time,
                   d_is_transcribing, d_lock, d_transcriptions, d_warnings,
                   d_sleep, rec_primed, rec_preroll_buffer, rec_dropped,
                   rec_level, rec_callback>>

\* _on_recording_stop, lines 244-250 and 259-268: the length filter and the
\* test of self._is_transcribing
StopFilter(t) ==
    /\ pc[t] = "stop_filter"
    /\ IF audio[t] # <<>> /\ AudioLen(audio[t]) >= MinSamples
       THEN IF d_is_transcribing
            THEN /\ d_status' = "busy"
                 /\ pc' = [pc EXCEPT ![t] = "idle"]
                 /\ audio' = [audio EXCEPT ![t] = <<>>]
            ELSE /\ pc' = [pc EXCEPT ![t] = "stop_spawn"]
                 /\ UNCHANGED <<d_status, audio>>
       ELSE /\ d_status' = IF audio[t] # <<>> /\ AudioLen(audio[t]) > 0
                           THEN "too_short" ELSE "empty"
            /\ pc' = [pc EXCEPT ![t] = "idle"]
            /\ audio' = [audio EXCEPT ![t] = <<>>]
    /\ UNCHANGED <<cfg, engVars, now, limits, hkVars, d_max_seconds, d_recording,
                   d_record_start_time, d_is_transcribing, d_lock,
                   d_transcriptions, d_warnings, d_sleep, recVars>>

\* _on_recording_stop, lines 252-258: set the flag and start the
\* _do_transcription thread
StopSpawn(t) ==
    /\ pc[t] = "stop_spawn"
    /\ d_is_transcribing' = TRUE
    /\ d_status' = "transcribing"
    /\ d_transcriptions' = d_transcriptions \cup {audio[t]}
    /\ audio' = [audio EXCEPT ![t] = <<>>]
    /\ pc' = [pc EXCEPT ![t] = "idle"]
    /\ UNCHANGED <<cfg, engVars, now, limits, hkVars, d_max_seconds, d_recording,
                   d_record_start_time, d_lock, d_warnings, d_sleep, recVars>>

\* the outcomes of _do_transcription, as the status it prints
TranscriptionOutcomes == {"ready", "no_speech", "output_failed", "exception"}

\* a _do_transcription that clears the flag on its success path only
DoTranscription_NoFinally(a, outcome) ==
    /\ a \in d_transcriptions
    /\ d_transcriptions' = d_transcriptions \ {a}
    /\ d_status' = outcome
    /\ d_is_transcribing' = IF outcome = "ready" THEN FALSE ELSE d_is_transcribing
    /\ UNCHANGED <<cfg, engVars, now, limits, hkVars, d_max_seconds, d_recording,
                   d_record_start_time, d_lock, pc, audio, d_warnings,
                   d_sleep, recVars>>

\* _do_transcription runs to its end: the status of its outcome, then
\* finally: self._is_transcribing = False
DoTranscription(a, outcome) ==
    /\ a \in d_transcriptions
    /\ d_transcriptions' = d_transcriptions \ {a}
    /\ d_status' = outcome
    /\ d_is_transcribing' = FALSE
    /\ UNCHANGED <<cfg, engVars, now, limits, hkVars, d_max_seconds, d_recording,
                   d_record_start_time, d_lock, pc, audio, d_warnings,
                   d_sleep, recVars>>

\* _check_max_recording_time that warns but never stops the recording
CheckMaxRecordingTime_WarnOnly ==
    /\ pc["main"] = "idle"
    /\ d_sleep = 0
    /\ d_sleep' = SleepMs
    /\ IF ~d_recording
       THEN UNCHANGED <<d_warnings, d_status>>
       ELSE LET elapsed == now - d_record_start_time
                warn == /\ d_max_seconds > WarnBeforeS
                        /\ elapsed >= (d_max_seconds - WarnBeforeS) * 1000
                        /\ elapsed < (d_max_seconds - WarnUntilS) * 1000
            IN /\ d_warnings' = IF warn THEN d_warnings + 1 ELSE d_warnings
               /\ d_status' = IF warn THEN "warning" ELSE d_status
    /\ UNCHANGED <<cfg, engVars, now, limits, hkVars, d_max_seconds, d_recording,
                   d_record_start_time, d_is_transcribing, d_lock, pc, audio,
                   d_transcriptions, recVars>>

\* _check_max_recording_time up to the call of _on_recording_stop, run by
\* the main loop once per iteration (time.sleep(0.1) between two)
CheckMaxRecordingTime ==
    /\ pc["main"] = "idle"
    /\ d_sleep = 0
    /\ d_sleep' = SleepMs
    /\ IF ~d_recording
       THEN UNCHANGED <<pc, d_warnings, d_status>>
       ELSE LET elapsed == now - d_record_start_time
                warn == /\ d_max_seconds > WarnBeforeS
                        /\ elapsed >= (d_max_seconds - WarnBeforeS) * 1000
                        /\ elapsed < (d_max_seconds - WarnUntilS) * 1000
            IN /\ d_warnings' = IF warn THEN d_warnings + 1 ELSE d_warnings
               /\ d_status' = IF warn THEN "warning" ELSE d_status
               /\ pc' = IF elapsed >= d_max_seconds * 1000
                        THEN [pc EXCEPT !["main"] = "stop_lock"]
                        ELSE pc
    /\ UNCHANGED <<cfg, engVars, now, limits, hkVars, d_max_seconds, d_recording,
                   d_record_start_time, d_is_transcribing, d_lock, audio,
                   d_transcriptions, recVars>>

----------------------------------------------------------------------------
(* WhisperEngine (src/src/cld/engines/whisper.py) *)

\* --- strings: a str is the sequence of its characters --------------------

\* the characters str.split() and str.strip() treat as whitespace
IsSpace(c) == c = " "

\* str.strip()
RECURSIVE LStrip(_)
LStrip(s) == IF s # <<>> /\ IsSpace(Head(s)) THEN LStrip(Tail(s)) ELSE s

RECURSIVE RStrip(_)
RStrip(s) ==
    IF s # <<>> /\ IsSpace(s[Len(s)]) THEN RStrip(SubSeq(s, 1, Len(s) - 1)) ELSE s

Strip(s) == LStrip(RStrip(s))

\* str.split(): the maximal runs of non-whitespace characters
RECURSIVE SplitFrom(_, _, _)
SplitFrom(s, word, words) ==
    IF s = <<>>
    THEN IF word = <<>> THEN words ELSE Append(words, word)
    ELSE IF IsSpace(Head(s))
         THEN SplitFrom(Tail(s), <<>>,
                        IF word = <<>> THEN words ELSE Append(words, word))
         ELSE SplitFrom(Tail(s), Append(word, Head(s)), words)

Split(s) == SplitFrom(s, <<>>, <<>>)

\* " ".join(words)
RECURSIVE JoinSpace(_)
JoinSpace(words) ==
    IF words = <<>> THEN <<>>
    ELSE IF Len(words) = 1 THEN words[1]
    ELSE words[1] \o <<" ">> \o JoinSpace(Tail(words))

\* seq[-k:] and seq[k:] of Python
LastK(seq, k) == SubSeq(seq, Len(seq) - k + 1, Len(seq))
DropK(seq, k) == SubSeq(seq, k + 1, Len(seq))

\* --- _chunk_audio --------------------------------------------------------

\* the last chunk has at least this many seconds
MinTailSeconds == 10

\* the while loop without the merge of a short tail: every window is emitted
RECURSIVE ChunkLoop_NoMerge(_, _, _, _)
ChunkLoop_NoMerge(chunks, start, total_samples, sample_rate) ==
    LET chunk_samples == ChunkDurationSeconds * sample_rate
        overlap_samples == ChunkOverlapSeconds * sample_rate
        end == IF start + chunk_samples <= total_samples
               THEN start + chunk_samples ELSE total_samples
    IN  IF ~(start < total_samples) THEN chunks
        ELSE ChunkLoop_NoMerge(Append(chunks, <<start, end>>),
                               start + (chunk_samples - overlap_samples),
                               total_samples, sample_rate)

\* the while loop that leaves at a short tail without extending the last
\* chunk over it
RECURSIVE ChunkLoop_DropsTail(_, _, _, _)
ChunkLoop_DropsTail(chunks, start, total_samples, sample_rate) ==
    LET chunk_samples == ChunkDurationSeconds * sample_rate
        overlap_samples == ChunkOverlapSeconds * sample_rate
        end == IF start + chunk_samples <= total_samples
               THEN start + chunk_samples ELSE total_samples
        appended == Append(chunks, <<start, end>>)
        next == start + (chunk_samples - overlap_samples)
    IN  IF ~(start < total_samples) THEN chunks
        ELSE IF total_samples - next < sample_rate * MinTailSeconds
                /\ next < total_samples
             THEN appended
             ELSE ChunkLoop_DropsTail(appended, next, total_samples, sample_rate)

\* the while loop of _chunk_audio; a chunk is the slice <<start, end>> of the
\* samples start .. end-1
RECURSIVE ChunkLoop(_, _, _, _)
ChunkLoop(chunks, start, total_samples, sample_rate) ==
    LET chunk_samples == ChunkDurationSeconds * sample_rate
        overlap_samples == ChunkOverlapSeconds * sample_rate
        end == IF start + chunk_samples <= total_samples
               THEN start + chunk_samples ELSE total_samples
        appended == Append(chunks, <<start, end>>)
        next == start + (chunk_samples - overlap_samples)
    IN  IF ~(start < total_samples) THEN chunks
        ELSE IF total_samples - next < sample_rate * MinTailSeconds
                /\ next < total_samples
             THEN [appended EXCEPT ![Len(appended)] =
                      <<next - (chunk_samples - overlap_samples), total_samples>>]
             ELSE ChunkLoop(appended, next, total_samples, sample_rate)

ChunkAudio(total_samples, sample_rate) ==
    IF total_samples <= ChunkDurationSeconds * sample_rate
    THEN << <<0, total_samples>> >>
    ELSE ChunkLoop(<<>>, 0, total_samples, sample_rate)

\* lengths of the utterances given to _chunk_audio, in samples
UtteranceSamples ==
    {sec * SampleRate : sec \in 1..MaxUtteranceSeconds}
        \cup {n * BlockSize : n \in 1..MaxUtteranceBlocks}

\* one call of _chunk_audio(audio) with len(audio) = eng_samples
ChunkAudioCall ==
    /\ eng_pc = "idle"
    /\ eng_chunks' = ChunkAudio(eng_samples, SampleRate)
    /\ eng_pc' = "chunked"
    /\ UNCHANGED <<now, limits, cfg, hkVars, dVars, recVars, eng_model, eng_last_error,
                   eng_samples, eng_i, eng_results, eng_calls, eng_worker,
                   eng_finish, eng_deadline, eng_timed_out, eng_return>>

\* --- _join_chunks --------------------------------------------------------

\* the overlap lengths range(5, 0, -1) that match at a boundary
MatchingOverlaps(joined_words, next_words) ==
    { k \in 1..MaxOverlapWords :
        /\ Len(joined_words) >= k
        /\ Len(next_words) >= k
        /\ LastK(joined_words, k) = SubSeq(next_words, 1, k) }

\* one iteration of the for loop: the new value of `joined`
JoinStep(joined, next_text) ==
    LET joined_words == Split(joined)
        next_words == Split(next_text)
        found == MatchingOverlaps(joined_words, next_words)
    IN  IF next_text = <<>> THEN joined
        ELSE IF Len(joined_words) >= MinDedupWords
                /\ Len(next_words) >= MinDedupWords
                /\ found # {}
             THEN LET overlap_len == CHOOSE k \in found : \A j \in found : j <= k
                  IN  joined \o <<" ">> \o JoinSpace(DropK(next_words, overlap_len))
             ELSE joined \o <<" ">> \o next_text

RECURSIVE JoinLoop(_, _, _)
JoinLoop(joined, results, i) ==
    IF i > Len(results) THEN joined
    ELSE JoinLoop(JoinStep(joined, results[i]), results, i + 1)

JoinChunks(results) ==
    IF results = <<>> THEN <<>>
    ELSE IF Len(results) = 1 THEN results[1]
    ELSE Strip(JoinLoop(results[1], results, 2))

\* the words the explored chunk texts are made of
JoinAlphabet == {"a", "b"}

\* " ".join of one-letter words
TextOf(letters) == JoinSpace([i \in 1..Len(letters) |-> <<letters[i]>>])

\* the lists of exactly m chunk texts that hold at most n words together
RECURSIVE TextLists(_, _)
TextLists(m, n) ==
    IF m = 0 THEN {<<>>}
    ELSE UNION { LET rest == TextLists(m - 1, n - k)
                 IN  {<<TextOf(letters)>> \o r :
                         letters \in [1..k -> JoinAlphabet], r \in rest} :
                 k \in 0..n }

\* the lists of chunk texts given to _join_chunks
JoinInputs(max_texts, max_words) ==
    UNION {TextLists(m, max_words) : m \in 1..max_texts}

\* one call of _join_chunks(results) with results = eng_results
JoinChunksCall ==
    /\ eng_pc = "idle"
    /\ eng_return' = JoinChunks(eng_results)
    /\ eng_pc' = "joined"
    /\ UNCHANGED <<now, limits, cfg, hkVars, dVars, recVars, eng_model, eng_last_error,
                   eng_samples, eng_chunks, eng_i, eng_results, eng_calls,
                   eng_worker, eng_finish, eng_deadline, eng_timed_out>>

\* --- transcribe and _transcribe_with_timeout -----------------------------

TimeoutMs == TranscriptionTimeoutS * 1000

\* the clock advances by at most this much in one step
EngineTickMs == TimeoutMs \div 4

\* how long the engine call of a chunk runs: well within the timeout, or
\* beyond it
Durations == {TimeoutMs \div 4, TimeoutMs + TimeoutMs \div 4}

\* what _transcribe_internal returns (already stripped)
EngineTexts == { <<>>,
                 <<"a", " ", "b", " ", "c">>,
                 <<"b", " ", "c", " ", "d">>,
                 <<"d">> }

\* what one engine call does: it returns `text` after `dur` ms, raises after
\* `dur` ms, or never returns
EngineCalls ==
    [text : EngineTexts, raises : BOOLEAN, dur : Durations, hangs : BOOLEAN]

\* durations of the utterances explored, in seconds: 1, 2 and 3 chunks
UtteranceSeconds == {30, 100, 125}

\* outcomes of load_model() when the model is not loaded yet
LoadOutcomes == {"ok", "not_installed", "not_found", "out_of_memory",
                 "runtime", "no_space", "file_system", "other"}

\* self._last_error after load_model(): the message it records for each cause
LoadError(outcome) ==
    CASE outcome = "ok" -> "none"
      [] outcome = "not_installed" -> "pywhispercpp not installed"
      [] outcome = "not_found" -> "Model not found"
      [] outcome = "out_of_memory" -> "Not enough memory for model"
      [] outcome = "runtime" -> "Runtime error"
      [] outcome = "no_space" -> "Not enough disk space for model"
      [] outcome = "file_system" -> "File system error"
      [] OTHER -> "Failed to load model"

\* the rest of transcribe() once _transcribe_with_timeout has returned `text`
\* for chunk eng_i: a single chunk is returned as is, otherwise a non-empty
\* text is kept and the loop goes on; after the last chunk the join is returned
AfterChunk(text) ==
    IF Len(eng_chunks) = 1
    THEN /\ eng_return' = text
         /\ eng_pc' = "done"
         /\ UNCHANGED <<eng_i, eng_results>>
    ELSE LET results == IF text # <<>> THEN Append(eng_results, text)
                        ELSE eng_results
         IN  /\ eng_results' = results
             /\ IF eng_i < Len(eng_chunks)
                THEN /\ eng_i' = eng_i + 1
                     /\ eng_pc' = "submit"
                     /\ UNCHANGED eng_return
                ELSE /\ eng_pc' = "done"
                     /\ eng_return' = JoinChunks(results)
                     /\ UNCHANGED eng_i

\* transcribe(audio, sample_rate) up to the first chunk: load_model(), then
\* _chunk_audio
Transcribe(seconds, load) ==
    /\ eng_pc = "idle"
    /\ IF ~eng_model /\ load # "ok"
       THEN /\ eng_last_error' = LoadError(load)
            /\ eng_return' = <<>>
            /\ eng_pc' = "done"
            /\ UNCHANGED <<eng_model, eng_samples, eng_chunks, eng_i>>
       ELSE /\ eng_model' = TRUE
            /\ eng_last_error' = IF eng_model THEN eng_last_error ELSE "none"
            /\ eng_samples' = seconds * SampleRate
            /\ eng_chunks' = ChunkAudio(seconds * SampleRate, SampleRate)
            /\ eng_i' = 1
            /\ eng_pc' = "submit"
            /\ UNCHANGED eng_return
    /\ UNCHANGED <<now, limits, cfg, hkVars, dVars, recVars, eng_results, eng_calls,
                   eng_worker, eng_finish, eng_deadline, eng_timed_out>>

\* executor.submit(self._transcribe_internal, chunk) in a new executor, then
\* future.result(timeout=...) starts to wait
Submit(call) ==
    /\ eng_pc = "submit"
    /\ eng_calls' = Append(eng_calls, call)
    /\ eng_worker' = "running"
    /\ eng_finish' = now + call.dur
    /\ eng_deadline' = now + TimeoutMs
    /\ eng_pc' = "wait"
    /\ UNCHANGED <<now, limits, cfg, hkVars, dVars, recVars, eng_samples, eng_model, eng_last_error,
                   eng_chunks, eng_i, eng_results, eng_timed_out, eng_return>>

\* the engine call ends in the executor's worker thread
WorkerFinish ==
    /\ eng_worker = "running"
    /\ ~eng_calls[eng_i].hangs
    /\ now = eng_finish
    /\ eng_worker' = "finished"
    /\ UNCHANGED <<now, limits, cfg, hkVars, dVars, recVars, eng_samples, eng_pc, eng_model,
                   eng_last_error, eng_chunks, eng_i, eng_results, eng_calls,
                   eng_finish, eng_deadline, eng_timed_out, eng_return>>

\* a future.result() whose re-raised exception is not caught by transcribe
ResultReady_Raises ==
    /\ eng_pc = "wait"
    /\ eng_worker = "finished"
    /\ IF eng_calls[eng_i].raises
       THEN /\ eng_pc' = "raised"
            /\ UNCHANGED <<eng_i, eng_results, eng_return>>
       ELSE AfterChunk(eng_calls[eng_i].text)
    /\ UNCHANGED <<now, limits, cfg, hkVars, dVars, recVars, eng_samples, eng_model, eng_last_error,
                   eng_chunks, eng_calls, eng_worker, eng_finish, eng_deadline,
                   eng_timed_out>>

\* future.result() returns the text, or re-raises the engine's exception, which
\* leaves the with block and is caught by transcribe's `except Exception`
ResultReady ==
    /\ eng_pc = "wait"
    /\ eng_worker = "finished"
    /\ IF eng_calls[eng_i].raises
       THEN /\ eng_return' = <<>>
            /\ eng_pc' = "done"
            /\ UNCHANGED <<eng_i, eng_results>>
       ELSE AfterChunk(eng_calls[eng_i].text)
    /\ UNCHANGED <<now, limits, cfg, hkVars, dVars, recVars, eng_samples, eng_model, eng_last_error,
                   eng_chunks, eng_calls, eng_worker, eng_finish, eng_deadline,
                   eng_timed_out>>

\* future.result() raises FuturesTimeoutError at the deadline: the handler
\* records the error and executes `return ""`, which enters the executor's
\* __exit__
ResultTimeout ==
    /\ eng_pc = "wait"
    /\ eng_worker = "running"
    /\ now >= eng_deadline
    /\ eng_last_error' = "timed_out"
    /\ eng_timed_out' = eng_timed_out \cup {eng_i}
    /\ eng_pc' = "shutdown"
    /\ UNCHANGED <<now, limits, cfg, hkVars, dVars, recVars, eng_samples, eng_model, eng_chunks,
                   eng_i, eng_results, eng_calls, eng_worker, eng_finish,
                   eng_deadline, eng_return>>

\* an executor exit after which the timeout aborts the utterance: transcribe
\* returns "" at once
ExecutorExit_Abort ==
    /\ eng_pc = "shutdown"
    /\ eng_worker = "finished"
    /\ eng_return' = <<>>
    /\ eng_pc' = "done"
    /\ UNCHANGED <<now, limits, cfg, hkVars, dVars, recVars, eng_samples, eng_model, eng_last_error,
                   eng_chunks, eng_i, eng_results, eng_calls, eng_worker,
                   eng_finish, eng_deadline, eng_timed_out>>

\* ThreadPoolExecutor.__exit__ is shutdown(wait=True): it joins the worker
\* thread, and only then does _transcribe_with_timeout return ""
ExecutorExit ==
    /\ eng_pc = "shutdown"
    /\ eng_worker = "finished"
    /\ AfterChunk(<<>>)
    /\ UNCHANGED <<now, limits, cfg, hkVars, dVars, recVars, eng_samples, eng_model, eng_last_error,
                   eng_chunks, eng_calls, eng_worker, eng_finish, eng_deadline,
                   eng_timed_out>>

\* the caller of the engine is blocked: in future.result() or in the join of
\* the worker thread
EngineBlocked ==
    /\ eng_pc \in {"wait", "shutdown"}
    /\ eng_worker = "running"

\* time passes while the caller is blocked, up to the next instant at which
\* the engine call ends or the timeout expires
EngineTick ==
    /\ EngineBlocked
    /\ now < horizon
    /\ eng_pc = "wait" => now < eng_deadline
    /\ ~eng_calls[eng_i].hangs => now < eng_finish
    /\ LET stops == {now + EngineTickMs, horizon}
                    \cup (IF eng_pc = "wait" THEN {eng_deadline} ELSE {})
                    \cup (IF eng_calls[eng_i].hangs THEN {} ELSE {eng_finish})
       IN  now' = CHOOSE t \in stops : \A u \in stops : t <= u
    /\ UNCHANGED <<limits, cfg, hkVars, dVars, recVars, engVars>>

----------------------------------------------------------------------------
(* Config *)

\* values a field read from config.json can hold: an int, a float (in
\* tenths), an infinite float, a NaN, a string (by its index in
\* StringInputs) or None
PyValue(t, v) == [t |-> t, v |-> v]

StringInputs == << <<"4", "5">>, <<" ", "7", " ">>, <<"-", "3">>, <<"a">>, <<>>,
                   <<"9", "9", "9">>, <<"1", ".", "5">> >>

IsDigit(c) == c \in {"0", "1", "2", "3", "4", "5", "6", "7", "8", "9"}

DigitValue(c) ==
    CASE c = "0" -> 0 [] c = "1" -> 1 [] c = "2" -> 2 [] c = "3" -> 3
      [] c = "4" -> 4 [] c = "5" -> 5 [] c = "6" -> 6 [] c = "7" -> 7
      [] c = "8" -> 8 [] c = "9" -> 9

RECURSIVE DigitsValue(_, _)
DigitsValue(digits, acc) ==
    IF digits = <<>> THEN acc
    ELSE DigitsValue(Tail(digits), 10 * acc + DigitValue(Head(digits)))

\* int(x): the exception raised ("none" if none) and the value
PyInt(x) ==
    CASE x.t = "int" -> [exc |-> "none", v |-> x.v]
      [] x.t = "float" ->
            [exc |-> "none",
             v |-> IF x.v >= 0 THEN x.v \div 10 ELSE -((-x.v) \div 10)]
      [] x.t = "inf" -> [exc |-> "OverflowError", v |-> 0]
      [] x.t = "nan" -> [exc |-> "ValueError", v |-> 0]
      [] x.t = "none" -> [exc |-> "TypeError", v |-> 0]
      [] x.t = "str" ->
            LET text == Strip(StringInputs[x.v])
                signed == text # <<>> /\ text[1] \in {"-", "+"}
                digits == IF signed THEN Tail(text) ELSE text
            IN IF digits = <<>> \/ \E i \in 1..Len(digits) : ~IsDigit(digits[i])
               THEN [exc |-> "ValueError", v |-> 0]
               ELSE [exc |-> "none",
                     v |-> IF text[1] = "-" THEN -DigitsValue(digits, 0)
                           ELSE DigitsValue(digits, 0)]

\* Config.validate(): how the call ends and the fields after it (the object
\* is changed in place, so the fields assigned before an exception stay)
ValidateConfig(f) ==
    LET a == [f EXCEPT !.key = IF f.key = "" THEN "alt_gr" ELSE f.key,
                       !.mode = IF f.mode \notin {"push_to_talk", "toggle"}
                                THEN "push_to_talk" ELSE f.mode,
                       !.engine = "whisper",
                       !.output = IF f.output \notin {"injection", "clipboard", "auto"}
                                  THEN "auto" ELSE f.output]
        conv == PyInt(f.max_seconds)
        seconds == IF conv.exc \in {"TypeError", "ValueError"} THEN 300 ELSE conv.v
        clamped == IF seconds < 1 THEN 1 ELSE IF seconds > 600 THEN 600 ELSE seconds
    IN IF conv.exc = "OverflowError"
       THEN [pc |-> "raised", fields |-> a]
       ELSE [pc |-> "validated",
             fields |-> [a EXCEPT !.max_seconds = PyValue("int", clamped),
                                  !.sample_rate = 16000]]

\* the defaults of the dataclasses
DefaultFields ==
    [key |-> "alt", mode |-> "toggle", engine |-> "whisper", output |-> "auto",
     max_seconds |-> PyValue("int", 300), sample_rate |-> 16000]

\* configurations as config.json or a caller can give them
MaxSecondsInputs ==
    {PyValue("int", v) : v \in {-5, 0, 1, 45, 600, 601}}
    \cup {PyValue("float", v) : v \in {-5, 9, 19, 6005, 6010}}
    \cup {PyValue("str", i) : i \in 1..Len(StringInputs)}
    \cup {PyValue("inf", 0), PyValue("nan", 0), PyValue("none", 0)}

ConfigInputs ==
    [key : {"", "alt", "f9"},
     mode : {"push_to_talk", "toggle", "bad"},
     engine : {"whisper", "nope"},
     output : {"injection", "clipboard", "auto", "wat"},
     max_seconds : MaxSecondsInputs,
     sample_rate : {16000, 8000}]

\* a call of validate()
Validate ==
    /\ cfg.pc = "constructed"
    /\ LET r == ValidateConfig(cfg.fields)
       IN cfg' = [cfg EXCEPT !.pc = r.pc, !.fields = r.fields]
    /\ UNCHANGED <<now, limits, hkVars, dVars, recVars, engVars>>

----------------------------------------------------------------------------
(* Specifications *)

\* a Config constructed from the given values
InitConfig(inputs) ==
    \E given \in inputs :
        cfg = [pc |-> "constructed", given |-> given, fields |-> given]

\* a listener just constructed and started
InitListener(hotkeys, modes) ==
    /\ hk_hotkey \in hotkeys
    /\ hk_mode \in modes
    /\ phys = {}
    /\ hk_pressed_keys = {}
    /\ hk_hotkey_active = FALSE
    /\ hk_is_recording = FALSE
    /\ hk_last_toggle_time = 0
    /\ hk_event_queue = <<>>
    /\ hk_emit = "none"
    /\ hk_dispatched = "none"
    /\ hk_listener = TRUE
    /\ hk_lock = "free"
    /\ hk_hook = "none"
    /\ hk_worker_stop = FALSE
    /\ hk_worker_thread = "w1"
    /\ hk_workers = [w \in WorkerIds |-> IF w = "w1" THEN "loop" ELSE "dead"]
    /\ hk_held = [w \in WorkerIds |-> "none"]
    /\ hk_taken = <<>>
    /\ hk_logged = FALSE
    /\ hk_caller = "idle"
    /\ d_reconfig = FALSE
    /\ d_hotkey = "old"

\* STTDaemon.__init__ and the start of run()
InitDaemon(max_seconds) ==
    /\ d_max_seconds \in max_seconds
    /\ d_recording = FALSE
    /\ d_record_start_time = 0
    /\ d_is_transcribing = FALSE
    /\ d_lock = "free"
    /\ pc = [t \in Threads |-> "idle"]
    /\ audio = [t \in Threads |-> <<>>]
    /\ d_transcriptions = {}
    /\ d_status = "none"
    /\ d_warnings = 0
    /\ d_sleep = 0

\* the pre-roll ring of a primed recorder that has been idle for at least
\* PrerollChunks block periods: the blocks captured up to now
FullRing == [i \in 1..PrerollChunks |-> Epoch - (PrerollChunks - i) * BlockMs]

\* AudioRecorder.__init__ followed by prime(); the ring is empty right after
\* prime() and full once the daemon has idled
InitRecorder(primed, rings) ==
    /\ rec_primed \in primed
    /\ rec_stream = rec_primed
    /\ rec_recording = FALSE
    /\ rec_recorded_chunks = <<>>
    /\ rec_preroll_buffer \in rings
    /\ rec_dropped = 0
    /\ rec_level = IF rec_preroll_buffer = <<>> THEN 0
                   ELSE BlockLevel(rec_preroll_buffer[Len(rec_preroll_buffer)])
    /\ rec_callback = "ok"

\* WhisperEngine.__init__; the model may have been loaded by an earlier call
InitEngine(loaded) ==
    /\ eng_pc = "idle"
    /\ eng_model \in loaded
    /\ eng_last_error = "none"
    /\ eng_samples = 0
    /\ eng_chunks = <<>>
    /\ eng_i = 0
    /\ eng_results = <<>>
    /\ eng_calls = <<>>
    /\ eng_worker = "none"
    /\ eng_finish = 0
    /\ eng_deadline = 0
    /\ eng_timed_out = {}
    /\ eng_return = <<>>

\* max_recording_seconds values explored (Config.validate keeps 1..600): the
\* shortest one, and the shortest one that has a warning
MaxSecondsValues == {1, 31}

\* the keys of the one-key hotkey explored with the daemon
DaemonKeys == {"space"}

Init ==
    /\ now = Epoch
    /\ keyBudget = MaxDaemonKeyEvents
    /\ horizon = Epoch + MaxBlocks * BlockMs
    /\ InitListener({<<"space">>}, Modes)
    /\ InitDaemon({1})
    /\ InitRecorder({TRUE}, {<<>>})
    /\ InitConfig({DefaultFields})
    /\ InitEngine({FALSE})

Next ==
    \/ \E k \in DaemonKeys : OnPress(k)
    \/ \E k \in DaemonKeys : OnRelease(k)
    \/ WorkerGet
    \/ StartCheck
    \/ StartLock
    \/ \E stream_ok \in BOOLEAN : StartRecord(stream_ok)
    \/ \E t \in Threads : StopLock(t)
    \/ \E t \in Threads : StopFilter(t)
    \/ \E t \in Threads : StopSpawn(t)
    \/ \E a \in d_transcriptions, o \in TranscriptionOutcomes : DoTranscription(a, o)
    \/ CheckMaxRecordingTime
    \/ AudioTick

Spec == Init /\ [][Next]_vars

\* the same system followed for longer, through fewer key events: a recording
\* that reaches max_recording_seconds
InitWatchdog ==
    /\ now = Epoch
    /\ keyBudget = MaxWatchdogKeyEvents
    /\ horizon = Epoch + MaxWatchdogBlocks * BlockMs
    /\ InitListener({<<"space">>}, Modes)
    /\ InitDaemon(MaxSecondsValues)
    /\ InitRecorder({TRUE}, {<<>>, FullRing})
    /\ InitConfig({DefaultFields})
    /\ InitEngine({FALSE})

SpecWatchdog == InitWatchdog /\ [][Next]_vars

\* the same system when prime() has failed at startup (run() only logs a
\* warning): every start() has to open the input stream itself
InitUnprimed ==
    /\ now = Epoch
    /\ keyBudget = MaxUnprimedKeyEvents
    /\ horizon = Epoch + MaxUnprimedBlocks * BlockMs
    /\ InitListener({<<"space">>}, Modes)
    /\ InitDaemon({1})
    /\ InitRecorder({FALSE}, {<<>>})
    /\ InitConfig({DefaultFields})
    /\ InitEngine({FALSE})

SpecUnprimed == InitUnprimed /\ [][Next]_vars

\* the same system when the audio callback can fail
InitCallback ==
    /\ now = Epoch
    /\ keyBudget = MaxCallbackKeyEvents
    /\ horizon = Epoch + MaxCallbackBlocks * BlockMs
    /\ InitListener({<<"space">>}, {"push-to-talk"})
    /\ InitDaemon({1})
    /\ InitRecorder({TRUE}, {FullRing})
    /\ InitConfig({DefaultFields})
    /\ InitEngine({FALSE})

NextCallback ==
    \/ Next
    \/ \E fault \in CallbackFaults, aborted \in BOOLEAN :
           AudioCallbackRaises(fault, aborted)

SpecCallback == InitCallback /\ [][NextCallback]_vars

InitHotkey ==
    /\ now = Epoch
    /\ keyBudget = MaxKeyEvents
    /\ horizon = Epoch + MaxHotkeyTicks * HotkeyTickMs
    /\ InitListener(Hotkeys, Modes)
    /\ InitDaemon({1})
    /\ InitRecorder({TRUE}, {<<>>})
    /\ InitConfig({DefaultFields})
    /\ InitEngine({FALSE})

NextHotkey ==
    \/ \E k \in RawKeys : OnPress(k)
    \/ \E k \in RawKeys : OnRelease(k)
    \/ WorkerDispatch
    \/ HotkeyTick

SpecHotkey == InitHotkey /\ [][NextHotkey]_vars

\* Config.validate() applied to configurations of every kind
InitValidate ==
    /\ now = Epoch
    /\ keyBudget = 0
    /\ horizon = Epoch
    /\ InitListener({<<"space">>}, {"toggle"})
    /\ InitDaemon({1})
    /\ InitRecorder({TRUE}, {<<>>})
    /\ InitConfig(ConfigInputs)
    /\ InitEngine({FALSE})

NextValidate == Validate

SpecValidate == InitValidate /\ [][NextValidate]_vars

\* the listener alone through enough hook events to fill its queue while the
\* dispatch worker is held up
InitQueue ==
    /\ now = Epoch
    /\ keyBudget = MaxQueueKeyEvents
    /\ horizon = Epoch + HotkeyTickMs
    /\ InitListener({<<"space">>}, {"push-to-talk"})
    /\ InitDaemon({1})
    /\ InitRecorder({TRUE}, {<<>>})
    /\ InitConfig({DefaultFields})
    /\ InitEngine({FALSE})

SpecQueue == InitQueue /\ [][NextHotkey]_vars

\* the listener alone with hotkeys over the three modifier classes and hook
\* events that arrive as members of keyboard.Key or as virtual-key codes
ModifierEvents ==
    {"ctrl_l", "ctrl_r", "vk162", "vk163", "shift_l", "shift_r", "vk160",
     "vk161", "alt_l", "alt_r", "alt_gr", "vk164", "vk165"}

NormalizeKeys == ModifierEvents \cup {"space", "vk32"}

NormalizeHotkeys ==
    { <<"ctrl", "space">>, <<"ctrl_l", "space">>, <<"shift", "space">>,
      <<"shift_r", "space">>, <<"alt", "space">>, <<"alt_gr", "space">>,
      <<"ctrl", "shift_l">>, <<"alt_l", "shift">> }

InitNormalize ==
    /\ now = Epoch
    /\ keyBudget = MaxNormalizeKeyEvents
    /\ horizon = Epoch + HotkeyTickMs
    /\ InitListener(NormalizeHotkeys, {"push-to-talk"})
    /\ InitDaemon({1})
    /\ InitRecorder({TRUE}, {<<>>})
    /\ InitConfig({DefaultFields})
    /\ InitEngine({FALSE})

NextNormalize ==
    \/ \E k \in NormalizeKeys : OnPress(k)
    \/ \E k \in NormalizeKeys : OnRelease(k)
    \/ WorkerDispatch
    \/ HotkeyTick

SpecNormalize == InitNormalize /\ [][NextNormalize]_vars

\* the listener with its threads taken one step at a time, through calls of
\* start() and stop() and a configuration change
InitLifecycle ==
    /\ now = Epoch
    /\ keyBudget = MaxLifecycleKeyEvents
    /\ horizon = Epoch + MaxLifecycleJoins * JoinTimeoutMs
    /\ InitListener({<<"space">>}, {"push-to-talk"})
    /\ InitDaemon({1})
    /\ InitRecorder({TRUE}, {<<>>})
    /\ InitConfig({DefaultFields})
    /\ InitEngine({FALSE})

NextLifecycle ==
    \/ \E kind \in {"press", "release"}, k \in DaemonKeys : HookEnter(kind, k)
    \/ HookMatch
    \/ HookEnqueue
    \/ \E ok \in BOOLEAN : ListenerStart(ok)
    \/ \E reconfig \in BOOLEAN : ListenerStopClear(reconfig)
    \/ ListenerStopWorker
    \/ \E timed_out \in BOOLEAN : ListenerJoin(timed_out)
    \/ \E ok \in BOOLEAN : ConfigReplace(ok)
    \/ \E w \in WorkerIds : WorkerTake(w)
    \/ \E w \in WorkerIds : WorkerInvoke(w)
    \/ \E w \in WorkerIds, raises \in BOOLEAN : WorkerReturn(w, raises)

SpecLifecycle == InitLifecycle /\ [][NextLifecycle]_vars

\* the listener as the daemon uses it: started once by run() and stopped only
\* by _on_config_change, which replaces it
NextConfig ==
    \/ \E kind \in {"press", "release"}, k \in DaemonKeys : HookEnter(kind, k)
    \/ HookMatch
    \/ HookEnqueue
    \/ ListenerStopClear(TRUE)
    \/ ListenerStopWorker
    \/ \E timed_out \in BOOLEAN : ListenerJoin(timed_out)
    \/ \E ok \in BOOLEAN : ConfigReplace(ok)
    \/ \E w \in WorkerIds : WorkerTake(w)
    \/ \E w \in WorkerIds : WorkerInvoke(w)
    \/ \E w \in WorkerIds, raises \in BOOLEAN : WorkerReturn(w, raises)

SpecConfig == InitLifecycle /\ [][NextConfig]_vars

\* one call of WhisperEngine.transcribe, on its own thread
InitEngineSpec ==
    /\ now = Epoch
    /\ keyBudget = 0
    /\ horizon = Epoch + MaxEngineTicks * EngineTickMs
    /\ InitListener({<<"space">>}, {"toggle"})
    /\ InitDaemon({1})
    /\ InitRecorder({TRUE}, {<<>>})
    /\ InitConfig({DefaultFields})
    /\ InitEngine(BOOLEAN)

NextEngine ==
    \/ \E seconds \in UtteranceSeconds, load \in LoadOutcomes : Transcribe(seconds, load)
    \/ \E call \in EngineCalls : Submit(call)
    \/ WorkerFinish
    \/ ResultReady
    \/ ResultTimeout
    \/ ExecutorExit
    \/ EngineTick

SpecEngine == InitEngineSpec /\ [][NextEngine]_vars

\* the engine calls followed to their end: every way a call can run, return,
\* raise or hang, returning one text
LiveCalls == {call \in EngineCalls : call.text = <<"d">>}

NextEngineLive ==
    \/ \E seconds \in UtteranceSeconds, load \in LoadOutcomes : Transcribe(seconds, load)
    \/ \E call \in LiveCalls : Submit(call)
    \/ WorkerFinish
    \/ ResultReady
    \/ ResultTimeout
    \/ ExecutorExit
    \/ EngineTick

\* the same call when the calling thread and the executor's worker thread are
\* both scheduled and the clock runs: once transcribe has been entered, no
\* step of either thread that can be taken is put off forever
SpecEngineLive ==
    /\ InitEngineSpec
    /\ [][NextEngineLive]_vars
    /\ WF_vars(\E call \in LiveCalls : Submit(call))
    /\ WF_vars(WorkerFinish)
    /\ WF_vars(ResultReady)
    /\ WF_vars(ResultTimeout)
    /\ WF_vars(ExecutorExit)
    /\ WF_vars(EngineTick)

\* _chunk_audio applied to an utterance of every explored length
InitChunk ==
    /\ now = Epoch
    /\ keyBudget = 0
    /\ horizon = Epoch
    /\ InitListener({<<"space">>}, {"toggle"})
    /\ InitDaemon({1})
    /\ InitRecorder({TRUE}, {<<>>})
    /\ InitConfig({DefaultFields})
    /\ eng_pc = "idle"
    /\ eng_model = TRUE
    /\ eng_last_error = "none"
    /\ eng_samples \in UtteranceSamples
    /\ eng_chunks = <<>>
    /\ eng_i = 0
    /\ eng_results = <<>>
    /\ eng_calls = <<>>
    /\ eng_worker = "none"
    /\ eng_finish = 0
    /\ eng_deadline = 0
    /\ eng_timed_out = {}
    /\ eng_return = <<>>

NextChunk == ChunkAudioCall

\* _join_chunks applied to every explored list of chunk texts
InitJoin ==
    /\ now = Epoch
    /\ keyBudget = 0
    /\ horizon = Epoch
    /\ InitListener({<<"space">>}, {"toggle"})
    /\ InitDaemon({1})
    /\ InitRecorder({TRUE}, {<<>>})
    /\ InitConfig({DefaultFields})
    /\ eng_pc = "idle"
    /\ eng_model = TRUE
    /\ eng_last_error = "none"
    /\ eng_samples = 0
    /\ eng_chunks = <<>>
    /\ eng_i = 0
    /\ eng_results \in JoinInputs(MaxJoinTexts, MaxJoinWords)
    /\ eng_calls = <<>>
    /\ eng_worker = "none"
    /\ eng_finish = 0
    /\ eng_deadline = 0
    /\ eng_timed_out = {}
    /\ eng_return = <<>>

NextJoin == JoinChunksCall

SpecJoin == InitJoin /\ [][NextJoin]_vars

SpecChunk == InitChunk /\ [][NextChunk]_vars

----------------------------------------------------------------------------
(* Claims *)

\* C1: at most one transcription is in flight at any time: _do_transcription
\* never runs in two threads at once.
C1_SingleFlight == Cardinality(d_transcriptions) <= 1

\* C2: a Start signal handled while a transcription is in flight is rejected:
\* the handler returns at its first test, no recording begins and the
\* recorder is not started.
C2_StartRejectedInFlight ==
    [][(StartCheck /\ d_transcriptions # {})
         => (pc'["worker"] = "idle" /\ UNCHANGED <<d_recording, recVars>>)]_vars

\* the press of raw key k completes the hotkey: afterwards every key of the
\* descriptor is held, and the listener was not active
Completes(k) ==
    /\ hk_hotkey_keys \subseteq (hk_pressed_keys \cup {NormalizeKey(k, hk_hotkey)})
    /\ ~hk_hotkey_active

\* C3: the listener becomes active at the press that completes the hotkey,
\* whatever the order of the presses; a Start is emitted only by such a press
\* (in push-to-talk mode exactly one, if the listener is not recording), and a
\* press while the listener is active (auto-repeat, extra keys) emits nothing.
C3_ActivatesOnce ==
    [][\A k \in RawKeys : OnPress(k) =>
         /\ hk_hotkey_active' =
               (hk_hotkey_active \/
                hk_hotkey_keys \subseteq (hk_pressed_keys \cup {NormalizeKey(k, hk_hotkey)}))
         /\ (hk_emit' = "start" => Completes(k))
         /\ (hk_hotkey_active =>
               /\ hk_emit' = "none"
               /\ UNCHANGED <<hk_event_queue, hk_is_recording, hk_last_toggle_time>>)
         /\ (Completes(k) /\ hk_mode = "push-to-talk" /\ ~hk_is_recording =>
               /\ hk_emit' = "start"
               /\ hk_event_queue' = EnqueueEvent(hk_event_queue, "start"))
      ]_vars

\* C3 witness: hotkey ctrl+space held and active, recording, and the last hook
\* event (a press of the extra key x, or an auto-repeat while x is held) emitted
\* nothing
C3_Witness ==
    /\ hk_hotkey = <<"ctrl", "space">>
    /\ hk_hotkey_active
    /\ hk_is_recording
    /\ "x" \in phys
    /\ hk_emit = "none"
    /\ hk_dispatched = "start"

\* C4: in push-to-talk mode, the release of any key of the hotkey while the
\* listener is recording emits exactly one Stop, whichever other keys remain
\* held; a release while not recording emits nothing; and every Stop ends the
\* listener's recording, so later releases cannot emit a second Stop for it.
C4_ReleaseStopsOnce ==
    [][\A k \in RawKeys : (OnRelease(k) /\ hk_mode = "push-to-talk") =>
         /\ (hk_is_recording /\ NormalizeKey(k, hk_hotkey) \in hk_hotkey_keys =>
               /\ hk_emit' = "stop"
               /\ hk_event_queue' = EnqueueEvent(hk_event_queue, "stop")
               /\ ~hk_is_recording')
         /\ (~hk_is_recording =>
               /\ hk_emit' = "none"
               /\ UNCHANGED <<hk_event_queue, hk_is_recording>>)
         /\ (hk_emit' = "stop" => hk_is_recording /\ ~hk_is_recording')
      ]_vars

\* C4 witness: push-to-talk, hotkey ctrl+space: space was released while ctrl
\* is still held, and that release emitted the Stop
C4_Witness ==
    /\ hk_mode = "push-to-talk"
    /\ hk_hotkey = <<"ctrl", "space">>
    /\ hk_emit = "stop"
    /\ "space" \notin phys
    /\ "ctrl" \in hk_pressed_keys
    /\ ~hk_is_recording

\* C5: in toggle mode a match less than the debounce window after the last
\* accepted one is discarded (nothing is emitted or queued and the listener
\* keeps its state), a match later than the window emits Start when not
\* recording and Stop when recording, and the queue grows at accepted matches
\* only, so a discarded match is never delivered later.
C5_ToggleDebounce ==
    [][/\ \A k \in RawKeys : (OnPress(k) /\ hk_mode = "toggle" /\ Completes(k)) =>
            /\ (now - hk_last_toggle_time < DebounceMs =>
                  /\ hk_emit' = "debounced"
                  /\ UNCHANGED <<hk_event_queue, hk_is_recording, hk_last_toggle_time>>)
            /\ (now - hk_last_toggle_time > DebounceMs =>
                  /\ hk_emit' = (IF hk_is_recording THEN "stop" ELSE "start")
                  /\ hk_event_queue' = EnqueueEvent(hk_event_queue, hk_emit')
                  /\ hk_is_recording' = ~hk_is_recording
                  /\ hk_last_toggle_time' = now)
       /\ (hk_mode = "toggle" /\ Len(hk_event_queue') > Len(hk_event_queue)) =>
            \E k \in RawKeys : /\ OnPress(k)
                                /\ Completes(k)
                                /\ now - hk_last_toggle_time >= DebounceMs
      ]_vars

\* C5 witness: toggle mode, a Start was dispatched, and a second match inside
\* the window has just been discarded: the listener still records
C5_Witness ==
    /\ hk_mode = "toggle"
    /\ hk_emit = "debounced"
    /\ hk_is_recording
    /\ hk_dispatched = "start"
    /\ hk_event_queue = <<>>
    /\ now - hk_last_toggle_time < DebounceMs

\* C6: during a recording the bounded RecordingBuffer never evicts a block:
\* the watchdog stops the recording before the buffer is full.
C6_NoBlockDropped == rec_dropped = 0

\* C7: the max-duration warning fires at most once per recording.
C7_WarningOnce == d_warnings <= 1

\* C8: a watchdog check made while recording with elapsed >= max_seconds
\* enters the Stop handler, and the handler acts in the main loop as it does in
\* the hotkey worker: under the lock it clears the recording flag and stops
\* the recorder, taking all of its buffer; then an utterance of at least
\* MinSamples goes on to the transcription hand-off (or is refused when a
\* transcription is flagged), a shorter one is signalled "too short".
C8_WatchdogStop ==
    [][/\ (CheckMaxRecordingTime /\ d_recording
            /\ now - d_record_start_time >= d_max_seconds * 1000)
          => pc'["main"] = "stop_lock"
       /\ \A t \in Threads :
            /\ (StopLock(t) /\ d_recording) =>
                  /\ ~d_recording'
                  /\ ~rec_recording'
                  /\ rec_recorded_chunks' = <<>>
                  /\ audio'[t] = (IF rec_recording THEN rec_recorded_chunks ELSE <<>>)
                  /\ pc'[t] = "stop_filter"
            /\ StopFilter(t) =>
                  /\ (AudioLen(audio[t]) >= MinSamples /\ ~d_is_transcribing
                        => pc'[t] = "stop_spawn" /\ audio'[t] = audio[t])
                  /\ (AudioLen(audio[t]) >= MinSamples /\ d_is_transcribing
                        => pc'[t] = "idle" /\ d_status' = "busy")
                  /\ (AudioLen(audio[t]) \in 1..(MinSamples - 1)
                        => pc'[t] = "idle" /\ d_status' = "too_short")
            /\ StopSpawn(t) =>
                  /\ d_is_transcribing'
                  /\ d_transcriptions' = d_transcriptions \cup {audio[t]}
      ]_vars

\* C8 witness: max_seconds have elapsed since the recording started, the main
\* loop has stopped it and has handed its utterance to a transcription thread
C8_Witness ==
    /\ pc["main"] = "idle"
    /\ ~d_recording
    /\ d_record_start_time > 0
    /\ now - d_record_start_time >= d_max_seconds * 1000
    /\ d_status = "transcribing"
    /\ \E a \in d_transcriptions : a[Len(a)] = now
    /\ hk_event_queue = <<>> /\ pc["worker"] = "idle" /\ hk_dispatched = "start"

\* what _transcribe_with_timeout hands back for chunk i according to what its
\* engine call did: nothing when its future.result() timed out
ChunkText(i) == IF i \in eng_timed_out THEN <<>> ELSE eng_calls[i].text

\* the engine call of a submitted chunk raised and the caller saw it
RaiseSeen == \E i \in 1..Len(eng_calls) : eng_calls[i].raises /\ i \notin eng_timed_out

\* C9: when transcribe has returned and some chunk timed out (no engine call
\* having failed), every chunk was submitted in turn, the timed-out chunks
\* count as the empty string, and the value returned is the join of the
\* non-empty texts of the other chunks, in order (for a single chunk, "").
C9_TimedOutChunkSkipped ==
    (eng_pc = "done" /\ eng_timed_out # {} /\ ~RaiseSeen) =>
        /\ Len(eng_calls) = Len(eng_chunks)
        /\ eng_return =
              IF Len(eng_chunks) = 1 THEN <<>>
              ELSE JoinChunks(SelectSeq([i \in 1..Len(eng_chunks) |-> ChunkText(i)],
                                        LAMBDA text : text # <<>>))

\* C9 witness: an utterance of three chunks whose second chunk timed out has
\* been transcribed: the texts of the first and the third chunk are returned
C9_Witness ==
    /\ eng_pc = "done"
    /\ Len(eng_chunks) = 3
    /\ eng_timed_out = {2}
    /\ ~RaiseSeen
    /\ eng_calls[1].text # <<>>
    /\ eng_calls[3].text # <<>>
    /\ eng_return = JoinChunks(<<eng_calls[1].text, eng_calls[3].text>>)
    /\ eng_return # <<>>

\* C10: a call of _transcribe_with_timeout whose future.result() timed out
\* has returned to its caller by the deadline: the caller is never found
\* inside the call after it.
C10_ReturnsAtDeadline == eng_pc = "shutdown" => now <= eng_deadline

\* number of samples of chunk i
ChunkLen(i) == eng_chunks[i][2] - eng_chunks[i][1]

\* C11: every chunk produced by _chunk_audio is at most 60 s long.
C11_ChunkAtMost60s ==
    \A i \in 1..Len(eng_chunks) : ChunkLen(i) <= ChunkDurationSeconds * SampleRate

\* distance between the starts of two successive windows, in samples
ChunkStep == (ChunkDurationSeconds - ChunkOverlapSeconds) * SampleRate

\* C12: for an utterance longer than 60 s no chunk is shorter than 10 s: the
\* windows start every 55 s, none starts less than 10 s before the end of the
\* utterance, and the last chunk runs to the end of the utterance, so a
\* remainder under 10 s is part of the chunk before it.
C12_NoShortChunk ==
    (eng_chunks # <<>> /\ eng_samples > ChunkDurationSeconds * SampleRate) =>
        /\ \A i \in 1..Len(eng_chunks) :
              /\ ChunkLen(i) >= MinTailSeconds * SampleRate
              /\ eng_chunks[i][1] = (i - 1) * ChunkStep
              /\ eng_samples - eng_chunks[i][1] >= MinTailSeconds * SampleRate
        /\ eng_chunks[Len(eng_chunks)][2] = eng_samples
        /\ eng_samples - Len(eng_chunks) * ChunkStep < MinTailSeconds * SampleRate

\* C12 witness: an utterance of two windows and a remainder of less than 10 s:
\* two chunks, the second one extended over the remainder
C12_Witness ==
    /\ eng_pc = "chunked"
    /\ Len(eng_chunks) = 2
    /\ eng_samples - 2 * ChunkStep \in 1..(MinTailSeconds * SampleRate - 1)
    /\ eng_chunks[2] = <<ChunkStep, eng_samples>>
    /\ eng_chunks[2][2] > ChunkStep + ChunkDurationSeconds * SampleRate

\* the join of one boundary as C13 states it: the largest K in 5..1 whose
\* words match is dropped from the next text, for texts of any word count
DedupStep(joined, next_text) ==
    LET joined_words == Split(joined)
        next_words == Split(next_text)
        found == MatchingOverlaps(joined_words, next_words)
    IN  IF next_text = <<>> THEN joined
        ELSE IF found # {}
             THEN LET K == CHOOSE k \in found : \A j \in found : j <= k
                  IN  joined \o <<" ">> \o JoinSpace(DropK(next_words, K))
             ELSE joined \o <<" ">> \o next_text

\* C13: joining two chunk texts drops from the second the largest K <= 5
\* leading words that repeat the last K words of the first, whatever the word
\* counts of the two texts, and appends the second unchanged when no K matches.
C13_DedupAnyWordCount ==
    (eng_pc = "joined" /\ Len(eng_results) = 2) =>
        eng_return = Strip(DedupStep(eng_results[1], eng_results[2]))

\* the text of chunk i if its engine call completed: nothing when the call
\* timed out or failed
CompletedText(i) ==
    IF i \in eng_timed_out \/ eng_calls[i].raises THEN <<>> ELSE eng_calls[i].text

\* C14: when transcribe has returned for an utterance of several chunks, the
\* value returned is the join, in order, of the texts of the chunks whose
\* engine call completed; a failed call contributes nothing and the texts of
\* the completed ones are kept.
C14_FailedChunkSkipped ==
    (eng_pc = "done" /\ Len(eng_chunks) > 1) =>
        eng_return =
            JoinChunks(SelectSeq([i \in 1..Len(eng_calls) |-> CompletedText(i)],
                                 LAMBDA text : text # <<>>))

\* the characters of the explored texts
Chars == {"a", "b", "c", "d", " "}

\* the kind of cause a last-error message names
ErrorClass(message) ==
    CASE message = "Not enough memory for model" -> "memory"
      [] message \in {"Not enough disk space for model", "File system error"} -> "disk"
      [] message \in {"Runtime error", "Failed to load model",
                      "pywhispercpp not installed", "Model not found"} -> "generic"
      [] OTHER -> "none"

\* the kind of cause of a failed load
CauseClass(load) ==
    CASE load = "out_of_memory" -> "memory"
      [] load \in {"no_space", "file_system"} -> "disk"
      [] OTHER -> "generic"

\* C15: no step of transcribe lets an exception out, what it returns is a
\* string, and a call that finds the model not loaded and fails to load it
\* returns "" at once with a last-error message of the class of the cause
\* (out of memory, disk / file system, generic).
C15_NeverRaises ==
    [][/\ eng_pc' # "raised"
       /\ eng_pc' = "done" => eng_return' \in Seq(Chars)
       /\ \A seconds \in UtteranceSeconds, load \in LoadOutcomes \ {"ok"} :
             (Transcribe(seconds, load) /\ ~eng_model) =>
                 /\ eng_pc' = "done"
                 /\ eng_return' = <<>>
                 /\ ~eng_model'
                 /\ ErrorClass(eng_last_error') = CauseClass(load)
      ]_vars

\* C15 witness: the model could not be loaded for lack of memory: transcribe
\* has returned "" without submitting a chunk and the error names the memory
C15_Witness ==
    /\ eng_pc = "done"
    /\ ~eng_model
    /\ eng_return = <<>>
    /\ eng_calls = <<>>
    /\ eng_last_error = "Not enough memory for model"

\* C16: after a Stop that ended a recording, an utterance of fewer than
\* MinSamples samples is dropped with "too short", an empty or absent one is
\* dropped silently, and every other utterance goes on to a transcription
\* thread.
C16_LengthFilter ==
    [][\A t \in Threads : StopFilter(t) =>
         /\ (AudioLen(audio[t]) \in 1..(MinSamples - 1) =>
               /\ d_status' = "too_short"
               /\ pc'[t] = "idle"
               /\ UNCHANGED <<d_is_transcribing, d_transcriptions>>)
         /\ (audio[t] = <<>> =>
               /\ d_status' = "empty"
               /\ pc'[t] = "idle"
               /\ UNCHANGED <<d_is_transcribing, d_transcriptions>>)
         /\ (AudioLen(audio[t]) >= MinSamples =>
               /\ pc'[t] = "stop_spawn"
               /\ audio'[t] = audio[t])
      ]_vars

\* C17: whatever its outcome, the end of a transcription thread clears the
\* transcription flag; the flag is clear whenever no transcription thread
\* runs; and a Start handled with the flag clear is accepted: it goes on to
\* take the lock and, unless a recording is on, begins one.
C17_BackToReady ==
    [][/\ \A a \in d_transcriptions, o \in TranscriptionOutcomes :
             DoTranscription(a, o) => (~d_is_transcribing' /\ d_status' = o)
       /\ d_transcriptions' = {} => ~d_is_transcribing'
       /\ (StartCheck /\ ~d_is_transcribing) => pc'["worker"] = "start_lock"
       /\ (StartLock /\ ~d_recording) => (d_recording' /\ pc'["worker"] = "start_record")
      ]_vars

\* C17 witness: a transcription ended with an exception, no transcription is
\* left, and the next Start has passed the test of the flag
C17_Witness ==
    /\ d_status = "exception"
    /\ d_transcriptions = {}
    /\ ~d_is_transcribing
    /\ pc["worker"] = "start_lock"

\* C18: a Start whose recorder.start() fails gives the error signal and
\* leaves the recording flag false, and every Start that is not refused ends
\* either that way or with a recording begun: the flag true, the recorder
\* recording and its input stream open.
C18_StartFailure ==
    [][\A stream_ok \in BOOLEAN : StartRecord(stream_ok) =>
         \/ (d_status' = "start_failed" /\ ~d_recording')
         \/ (d_status' = "recording" /\ d_recording' /\ rec_recording' /\ rec_stream')
      ]_vars

\* the blocks of q are in the order of their capture
Chronological(q) == \A i, j \in 1..Len(q) : i < j => q[i] < q[j]

\* C19: a start() that begins a recording makes the recording buffer equal to
\* the pre-roll ring, oldest block first, and empties the ring; a block that
\* arrives while recording is appended at the end of the buffer; stop()
\* returns the buffer as it is, and what it returns is in capture order.
C19_SeededChronological ==
    [][/\ \A stream_ok \in BOOLEAN :
             (StartRecord(stream_ok) /\ ~rec_recording) =>
                 /\ rec_recorded_chunks' = rec_preroll_buffer
                 /\ rec_preroll_buffer' = <<>>
       /\ (AudioTick /\ rec_recording /\ rec_stream) =>
             /\ rec_recorded_chunks'[Len(rec_recorded_chunks')] = now'
             /\ SubSeq(rec_recorded_chunks', 1, Len(rec_recorded_chunks') - 1)
                   \in {rec_recorded_chunks,
                        SubSeq(rec_recorded_chunks, 2, Len(rec_recorded_chunks))}
             /\ rec_preroll_buffer' = rec_preroll_buffer
       /\ \A t \in Threads :
             (StopLock(t) /\ d_recording /\ rec_recording) =>
                 audio'[t] = rec_recorded_chunks
       /\ Chronological(rec_recorded_chunks')
       /\ \A t \in Threads : Chronological(audio'[t])
      ]_vars

\* C19 witness: stop() has returned an utterance that begins with the full
\* pre-roll ring captured before the Start and goes on with later blocks
C19_Witness ==
    \E t \in Threads :
        /\ pc[t] = "stop_filter"
        /\ Len(audio[t]) >= PrerollChunks + 2
        /\ audio[t][PrerollChunks] <= d_record_start_time
        /\ audio[t][PrerollChunks + 1] > d_record_start_time
        /\ rec_preroll_buffer = <<>>

\* number of pre-roll blocks start() copied into the current recording: those
\* still in the buffer and those evicted since (the oldest go first)
SeededAtStart ==
    Cardinality({i \in 1..Len(rec_recorded_chunks) :
                    rec_recorded_chunks[i] <= d_record_start_time}) + rec_dropped

\* C20: when the ring was full at start() and stop() is called D ms later,
\* the array returned has (PrerollMs + D) * SampleRate / 1000 samples, give or
\* take one block.
C20_PrerollLength ==
    [][\A t \in Threads :
         (StopLock(t) /\ d_recording /\ rec_recording
            /\ SeededAtStart = PrerollChunks) =>
             LET D == now - d_record_start_time
                 expected == ((PrerollMs + D) * SampleRate) \div 1000
                 returned == AudioLen(audio'[t])
             IN  /\ returned - expected <= BlockSize
                 /\ expected - returned <= BlockSize
      ]_vars

\* C21: after a stop() that found the recorder recording, the input stream is
\* open exactly when the recorder is primed (an unprimed recorder closes the
\* stream that start() opened, with or without captured audio), and
\* shutdown() leaves the stream closed.
C21_StreamOpenIffPrimed ==
    [][/\ \A t \in Threads :
            (StopLock(t) /\ d_recording /\ rec_recording) =>
                rec_stream' = rec_primed
       /\ ~RecorderShutdown.stream
      ]_vars

\* C22: an exception raised inside _audio_callback does not leave the
\* callback: the published level becomes 0 and the stream keeps running.
C22_CallbackNeverRaises ==
    [][\A fault \in CallbackFaults, aborted \in BOOLEAN :
         AudioCallbackRaises(fault, aborted) =>
             /\ rec_callback' = "ok"
             /\ rec_level' = 0
             /\ rec_stream'
      ]_vars

\* C23: the hook thread never waits for room in the signal queue: the queue
\* never holds more than QueueMaxSize entries, a signal emitted while it holds
\* fewer is appended, and a signal emitted while it is full is dropped.
C23_QueueBounded ==
    /\ [](Len(hk_event_queue) <= QueueMaxSize)
    /\ [][\A k \in RawKeys :
            ((OnPress(k) \/ OnRelease(k)) /\ hk_emit' \in Signals) =>
                IF Len(hk_event_queue) = QueueMaxSize
                THEN hk_event_queue' = hk_event_queue
                ELSE hk_event_queue' = Append(hk_event_queue, hk_emit')
         ]_vars

\* a Start was emitted while the queue was full of older signals
C23_Witness ==
    /\ Len(hk_event_queue) = QueueMaxSize
    /\ hk_event_queue[QueueMaxSize] = "stop"
    /\ hk_emit = "start"

\* C24: callbacks are called in the order in which their signals entered the
\* queue: a worker that calls a callback holds the oldest signal that has
\* been taken from the queue and not yet dispatched.
C24_DispatchInOrder ==
    [][\A w \in WorkerIds : WorkerInvoke(w) => Head(hk_taken) = w]_vars

\* C25: an exception raised by a callback is caught and logged by the worker
\* that called it: the worker goes back to its loop, the hook thread and the
\* queue are not touched, and the signals still queued stay to be dispatched.
C25_CallbackExceptionCaught ==
    [][\A w \in WorkerIds :
         WorkerReturn(w, TRUE) =>
             /\ hk_workers'[w] = "loop"
             /\ hk_logged'
             /\ hk_event_queue' = hk_event_queue
             /\ <<hk_lock, hk_hook, hk_pressed_keys, hk_hotkey_active,
                  hk_is_recording, hk_emit>>' =
                <<hk_lock, hk_hook, hk_pressed_keys, hk_hotkey_active,
                  hk_is_recording, hk_emit>>
      ]_vars

\* after a callback has raised, the same worker (the only one there has been)
\* calls the callback of a signal that was queued behind it
C25_Witness ==
    /\ hk_logged
    /\ hk_workers["w1"] = "call"
    /\ hk_workers["w2"] = "dead"
    /\ hk_worker_thread = "w1"
    /\ hk_dispatched = "stop"
    /\ ~hk_worker_stop

\* C26: the old listener is stopped before the new one exists, so the two are
\* never active together, and once _on_config_change has installed the new
\* listener no callback is called on behalf of the old one.
C26_OnlyNewListener ==
    /\ [](d_hotkey = "new" => ~hk_listener)
    /\ [][\A w \in WorkerIds : WorkerInvoke(w) => d_hotkey = "old"]_vars

\* the modifier class of a left/right event and the side it comes from
ModifierClass(key) ==
    CASE key \in {"ctrl_l", "ctrl_r", "vk162", "vk163"} -> "ctrl"
      [] key \in {"shift_l", "shift_r", "vk160", "vk161"} -> "shift"
      [] key \in {"alt_l", "alt_r", "alt_gr", "vk164", "vk165"} -> "alt"

ModifierSide(key) ==
    IF key \in {"ctrl_l", "vk162", "shift_l", "vk160", "alt_l", "vk164"}
    THEN "left" ELSE "right"

\* the identities that stand for one side of a class
SideIdentities(class, side) ==
    IF side = "left" THEN {class \o "_l"}
    ELSE IF class = "alt" THEN {"alt_r", "alt_gr"} ELSE {class \o "_r"}

\* the configured hotkey names a side-specific variant of the class
NamesSide(hotkey, class) ==
    \E i \in 1..Len(hotkey), side \in {"left", "right"} :
        hotkey[i] \in SideIdentities(class, side)

\* C27: when the hotkey names no side-specific variant of a modifier class,
\* a left or right event of the class, as a key or as a virtual-key code, is
\* held under the generic identity and completes the hotkey like the other
\* side; when the hotkey names a side, the event is held under an identity of
\* its own side.
C27_SidesNormalize ==
    [][\A k \in ModifierEvents :
         OnPress(k) =>
            LET class == ModifierClass(k)
            IN IF ~NamesSide(hk_hotkey, class)
               THEN /\ hk_pressed_keys' = hk_pressed_keys \cup {class}
                    /\ (hk_hotkey_keys \ {class}) \subseteq hk_pressed_keys
                           /\ class \in hk_hotkey_keys
                           => hk_hotkey_active'
               ELSE \E id \in SideIdentities(class, ModifierSide(k)) :
                        hk_pressed_keys' = hk_pressed_keys \cup {id}
      ]_vars

\* a right-hand virtual-key code has completed a hotkey that names the
\* generic modifier
C27_Witness ==
    /\ hk_hotkey = <<"ctrl", "space">>
    /\ phys = {"space", "vk163"}
    /\ hk_pressed_keys = {"ctrl", "space"}
    /\ hk_hotkey_active
    /\ hk_emit = "start"

\* C28: validate() never fails and leaves a valid configuration: a known
\* mode, engine and output mode are kept and an unknown one is replaced by
\* push_to_talk, whisper and auto, max_seconds is an integer in [1, 600], and
\* sample_rate is 16000.
C28_ValidateNormalizes ==
    cfg.pc # "constructed" =>
        /\ cfg.pc = "validated"
        /\ cfg.fields.mode = IF cfg.given.mode \in {"push_to_talk", "toggle"}
                             THEN cfg.given.mode ELSE "push_to_talk"
        /\ cfg.fields.engine = "whisper"
        /\ cfg.fields.output = IF cfg.given.output \in {"injection", "clipboard", "auto"}
                               THEN cfg.given.output ELSE "auto"
        /\ cfg.fields.max_seconds.t = "int"
        /\ cfg.fields.max_seconds.v \in 1..600
        /\ cfg.given.max_seconds.t = "int" /\ cfg.given.max_seconds.v \in 1..600
               => cfg.fields.max_seconds = cfg.given.max_seconds
        /\ cfg.fields.sample_rate = 16000

\* PressState of the listener
PressState ==
    <<hk_pressed_keys, hk_hotkey_active, hk_is_recording, hk_last_toggle_time>>

\* C29: PressState changes only in steps of a thread that holds the
\* listener's lock: the lock is held across the step, and the step is not one
\* of the thread that calls stop(), which never takes the lock.
C29_MutationsUnderLock ==
    [][PressState' # PressState =>
           /\ hk_lock = "hook" \/ hk_lock' = "hook"
           /\ hk_caller' = hk_caller
      ]_vars

\* C30: when the watchdog issues its Stop, the recording in progress has
\* written its own start time and has lasted max_recording_seconds since.
C30_WatchdogOwnRecording ==
    [][(CheckMaxRecordingTime /\ pc'["main"] = "stop_lock") =>
           /\ pc["worker"] # "start_record"
           /\ now - d_record_start_time >= d_max_seconds * 1000
      ]_vars

\* C31: the daemon's recording flag and its transcription-in-flight flag are
\* never both true.
C31_NotRecordingAndTranscribing == ~(d_recording /\ d_is_transcribing)

\* the daemon is Ready: no recording, no transcription in flight, neither
\* thread inside a handler
DaemonReady ==
    /\ ~d_recording
    /\ ~d_is_transcribing
    /\ d_transcriptions = {}
    /\ \A t \in Threads : pc[t] = "idle"

\* C32: in toggle mode, a hotkey match that is not debounced and that happens
\* while the daemon is Ready and the signal queue is empty emits Start.
C32_ReadyMatchStarts ==
    [][(/\ hk_mode = "toggle"
        /\ DaemonReady
        /\ hk_event_queue = <<>>
        /\ keyBudget' # keyBudget
        /\ hk_emit' \in Signals) => hk_emit' = "start"]_vars


\* C33: every call of transcribe that has started returns, so that the
\* finally clause of _do_transcription clears the transcription-in-flight flag
\* and Start is accepted again, even when an engine call never returns.
C33_TranscriptionEnds ==
    (eng_pc \in {"submit", "wait", "shutdown"}) ~> (eng_pc = "done")

\* C34: in push-to-talk mode a press that is released less than 200 ms
\* (MinSamples of audio) later never reaches the transcription pipeline. A
\* Stop handled by the hotkey worker comes from a release, and the press
\* before it came after the program started: when the worker hands audio to
\* a transcription thread, at least 200 ms have passed since the start.
C34_TapNotTranscribed ==
    [][(/\ hk_mode = "push-to-talk"
        /\ pc["worker"] = "stop_spawn"
        /\ pc'["worker"] = "idle"
        /\ d_transcriptions' # d_transcriptions)
       => (now - Epoch) * SampleRate >= MinSamples * 1000]_vars

\* C35: when start() brings a stopped listener back, PressState is fully
\* reset: no key is held, the recording flag and the hotkey-active flag are
\* false.
C35_RestartResetsPressState ==
    [][(~hk_listener /\ hk_listener')
       => (/\ hk_pressed_keys' = {}
           /\ ~hk_is_recording'
           /\ ~hk_hotkey_active')]_vars

\* C36: at most one dispatch-worker thread of a listener is alive at any
\* time.
C36_OneWorkerAlive ==
    Cardinality({w \in WorkerIds : hk_workers[w] # "dead"}) <= 1

\* the signals emitted since the one before the last one dispatched: the last
\* signal the worker took from the queue, then the queue
RecentSignals ==
    (IF hk_dispatched = "none" THEN <<>> ELSE <<hk_dispatched>>) \o hk_event_queue

\* C37: the signals a listener emits alternate Start, Stop, Start, ...,
\* beginning with Start: two signals emitted one after the other differ, and
\* the first signal is Start.
C37_SignalsAlternate ==
    /\ \A i \in 1..(Len(RecentSignals) - 1) : RecentSignals[i] # RecentSignals[i + 1]
    /\ (hk_dispatched = "none" /\ hk_event_queue # <<>>) => hk_event_queue[1] = "start"

\* three signals in a row, the last one dispatched and two in the queue
C37_Witness ==
    /\ hk_dispatched = "start"
    /\ hk_event_queue = <<"stop", "start">>

\* C38: the chunks of an utterance are slices in chronological order that
\* cover every sample: the first starts at sample 0, the last ends at the
\* final sample, and each later chunk starts after the start and before the
\* end of the chunk before it.
C38_ChunksCover ==
    eng_pc = "chunked" =>
        /\ eng_chunks # <<>>
        /\ eng_chunks[1][1] = 0
        /\ eng_chunks[Len(eng_chunks)][2] = eng_samples
        /\ \A i \in 1..Len(eng_chunks) : eng_chunks[i][1] < eng_chunks[i][2]
        /\ \A i \in 1..(Len(eng_chunks) - 1) :
              /\ eng_chunks[i][1] < eng_chunks[i + 1][1]
              /\ eng_chunks[i + 1][1] < eng_chunks[i][2]
              /\ eng_chunks[i][2] <= eng_chunks[i + 1][2]

\* C38 witness: an utterance cut into three chunks, the last one a tail kept
\* as a chunk of its own
C38_Witness ==
    /\ eng_pc = "chunked"
    /\ Len(eng_chunks) = 3
    /\ eng_chunks[3] = <<2 * ChunkStep, eng_samples>>

\* the blocks of a buffer or of an array returned by stop()
Blocks(q) == {q[i] : i \in DOMAIN q}

\* the arrays stop() has returned that the daemon still holds
ReturnedArrays == {audio[t] : t \in Threads} \cup d_transcriptions

\* the recorder's two buffers
RecorderBuffers == {rec_preroll_buffer, rec_recorded_chunks}

\* C39: every block the callback is given is stored in exactly one of the
\* pre-roll ring and the recording buffer; the ring never holds more than
\* PrerollChunks blocks; no block is held twice, neither by the two buffers
\* nor by a buffer and an array stop() has returned nor by two returned
\* arrays.
C39_BlocksStoredOnce ==
    /\ [](/\ Len(rec_preroll_buffer) <= PrerollChunks
          /\ \A q \in RecorderBuffers \cup ReturnedArrays :
                Cardinality(Blocks(q)) = Len(q)
          /\ Blocks(rec_preroll_buffer) \cap Blocks(rec_recorded_chunks) = {}
          /\ \A a \in ReturnedArrays, q \in RecorderBuffers :
                Blocks(a) \cap Blocks(q) = {}
          /\ \A a, b \in ReturnedArrays :
                a # b => Blocks(a) \cap Blocks(b) = {})
    /\ [][(now' = now + BlockMs /\ rec_stream) =>
             (now' \in Blocks(rec_preroll_buffer'))
                 # (now' \in Blocks(rec_recorded_chunks'))]_vars

\* C39 witness: two arrays returned by two stop() calls are held, the first
\* by its transcription and the second by the handler that stopped the
\* recording, while the ring has taken a block again
C39_Witness ==
    /\ rec_preroll_buffer # <<>>
    /\ \E a \in d_transcriptions, t \in Threads :
          /\ audio[t] # <<>>
          /\ audio[t] # a

\* C40: the text the join returns is its words separated by exactly one
\* space each, with no doubled, leading or trailing space.
C40_JoinSingleSpaced ==
    eng_pc = "joined" => eng_return = JoinSpace(Split(eng_return))

====
